---- MODULE Spec2Model ----
(***************************************************************************)
(* The ZigBee network registry of maurofran/ziggo (package zigbee): the    *)
(* devices map, the groups map, the listener list and the persistence of   *)
(* the two maps to a JSON file.                                             *)
(*                                                                         *)
(* Go strings are modelled as sequences of one-character strings, so that  *)
(* fmt.Sprintf and the JSON codec are computed, not assumed.  A Go slice   *)
(* is a record [nil, elems]: encoding/json tells nil from empty.           *)
(***************************************************************************)
EXTENDS Integers, Sequences, FiniteSets, TLC

\* Number of distinct listener objects the callers own.
NumListeners == 3

\* Number of goroutines that call into the registry at the same time.
NumThreads == 2

\* Number of calls the goroutines make in all.
MaxCalls == 3

---------------------------------------------------------------------------
\* Strings and slices

Digit(n) == CASE n = 0 -> "0" [] n = 1 -> "1" [] n = 2 -> "2" [] n = 3 -> "3"
              [] n = 4 -> "4" [] n = 5 -> "5" [] n = 6 -> "6" [] n = 7 -> "7"
              [] n = 8 -> "8" [] n = 9 -> "9"

RECURSIVE FormatUint(_)
\* the verb %d of fmt.Sprintf (and strconv.AppendUint in encoding/json)
FormatUint(n) == IF n < 10 THEN <<Digit(n)>>
                 ELSE FormatUint(n \div 10) \o <<Digit(n % 10)>>

NilSlice == [nil |-> TRUE, elems |-> <<>>]

MakeSlice(s) == [nil |-> FALSE, elems |-> s]

---------------------------------------------------------------------------
\* Addresses (address.go) and devices (device.go)

DeviceAddressIsGroup(a) == FALSE

DeviceAddressString(a) ==
    FormatUint(a.NetworkAddress) \o <<"/">> \o FormatUint(a.Endpoint)

GroupAddressIsGroup(a) == TRUE

GroupAddressString(a) == FormatUint(a.GroupID) \o <<"/">> \o a.Label

\* An Address interface value: the dynamic type and the value it holds.
DevAddr(a) == [kind |-> "DeviceAddress", val |-> a]

GrpAddr(a) == [kind |-> "GroupAddress", val |-> a]

IsGroup(address) == IF address.kind = "GroupAddress"
                    THEN GroupAddressIsGroup(address.val)
                    ELSE DeviceAddressIsGroup(address.val)

String(address) == IF address.kind = "GroupAddress"
                   THEN GroupAddressString(address.val)
                   ELSE DeviceAddressString(address.val)

ZeroDeviceAddress == [NetworkAddress |-> 0, Endpoint |-> 0]

ZeroGroupAddress == [GroupID |-> 0, Label |-> <<>>]

\* Device{}
ZeroDevice ==
    [IEEEAddress |-> 0, NetworkAddress |-> ZeroDeviceAddress, ProfileID |-> 0,
     DeviceType |-> 0, DeviceID |-> 0, ManufacturerCode |-> 0,
     DeviceVersion |-> 0, InputClusterIds |-> NilSlice,
     OutputClusterIds |-> NilSlice, Label |-> <<>>]

---------------------------------------------------------------------------
\* The values the callers pass in

Bulb ==
    [IEEEAddress |-> 43707,
     NetworkAddress |-> [NetworkAddress |-> 1, Endpoint |-> 1],
     ProfileID |-> 260, DeviceType |-> 1, DeviceID |-> 256,
     ManufacturerCode |-> 4107, DeviceVersion |-> 2,
     InputClusterIds |-> MakeSlice(<<0, 6>>),
     OutputClusterIds |-> NilSlice,
     Label |-> <<"b", "u", "l", "b">>]

\* a second node that took the network address of Bulb; its label holds a
\* byte that is not valid UTF-8 (0xFF)
Lamp ==
    [IEEEAddress |-> 52445,
     NetworkAddress |-> [NetworkAddress |-> 1, Endpoint |-> 1],
     ProfileID |-> 260, DeviceType |-> 0, DeviceID |-> 0,
     ManufacturerCode |-> 0, DeviceVersion |-> 0,
     InputClusterIds |-> NilSlice,
     OutputClusterIds |-> MakeSlice(<<>>),
     Label |-> <<"l", "xFF">>]

Plug ==
    [IEEEAddress |-> 1,
     NetworkAddress |-> [NetworkAddress |-> 5, Endpoint |-> 1],
     ProfileID |-> 0, DeviceType |-> 0, DeviceID |-> 81,
     ManufacturerCode |-> 0, DeviceVersion |-> 10,
     InputClusterIds |-> MakeSlice(<<>>),
     OutputClusterIds |-> MakeSlice(<<6>>),
     Label |-> <<>>]

DeviceValues == {Bulb, Lamp, Plug}

Hall == [GroupID |-> 5, Label |-> <<"1">>]

Attic == [GroupID |-> 5, Label |-> <<"x">>]

Yard == [GroupID |-> 7, Label |-> <<"y", "d">>]

GroupValues == {Hall, Attic, Yard}

GroupIDs == {g.GroupID : g \in GroupValues}

DeviceAddresses ==
    {d.NetworkAddress : d \in DeviceValues}
        \cup {[NetworkAddress |-> 11, Endpoint |-> 1]}

\* the Address values handed to Device()
AddressValues ==
    {DevAddr(a) : a \in DeviceAddresses} \cup {GrpAddr(g) : g \in GroupValues}

Listeners == 1..NumListeners

---------------------------------------------------------------------------
\* Go maps: a map is a function on the set of its keys

EmptyMap == <<>>

MapPut(m, k, v) == [x \in (DOMAIN m) \cup {k} |-> IF x = k THEN v ELSE m[x]]

MapDelete(m, k) == [x \in (DOMAIN m) \ {k} |-> m[x]]

\* v, ok := m[k]
MapGet(m, k, zero) == IF k \in DOMAIN m THEN <<m[k], TRUE>> ELSE <<zero, FALSE>>

Orders(S) ==
    {s \in [1..Cardinality(S) -> S] : \A i, j \in DOMAIN s : s[i] = s[j] => i = j}

\* "var result []T; for _, v := range m { result = append(result, v) }":
\* the iteration order of a map is unspecified, and the result of an empty
\* map is the nil slice
MapValues(m) ==
    IF DOMAIN m = {} THEN {NilSlice}
    ELSE {MakeSlice([i \in DOMAIN o |-> m[o[i]]]) : o \in Orders(DOMAIN m)}

---------------------------------------------------------------------------
\* encoding/json, as far as the registry uses it.  A document is a tree
\* [t, v]; Garbage stands for bytes that are no JSON text.  Numbers are kept
\* as their decimal digits and strings as the characters written.

JNull == [t |-> "null", v |-> <<>>]

Garbage == [t |-> "invalid", v |-> <<>>]

JNum(digits) == [t |-> "num", v |-> digits]

JStr(chars) == [t |-> "str", v |-> chars]

JArr(items) == [t |-> "arr", v |-> items]

\* members: a sequence of <<name, value>>
JObj(members) == [t |-> "obj", v |-> members]

\* Marshal coerces a string to valid UTF-8: an invalid byte is written as
\* the replacement rune U+FFFD
ToValidUTF8(s) == [i \in DOMAIN s |-> IF s[i] = "xFF" THEN "uFFFD" ELSE s[i]]

EncUint(n) == JNum(FormatUint(n))

EncString(s) == JStr(ToValidUTF8(s))

\* faulty variant: an empty slice is written as null too (omitempty-like)
EncUintSliceEmptyAsNull(s) ==
    IF s.nil \/ Len(s.elems) = 0 THEN JNull
    ELSE JArr([i \in DOMAIN s.elems |-> EncUint(s.elems[i])])

\* a nil slice is written as null, an empty one as []
EncUintSlice(s) ==
    IF s.nil THEN JNull ELSE JArr([i \in DOMAIN s.elems |-> EncUint(s.elems[i])])

EncDeviceAddress(a) ==
    JObj(<< <<"networkAddress", EncUint(a.NetworkAddress)>>,
            <<"endpoint", EncUint(a.Endpoint)>> >>)

EncDevice(d) ==
    JObj(<< <<"ieeeAddress", EncUint(d.IEEEAddress)>>,
            <<"networkAddress", EncDeviceAddress(d.NetworkAddress)>>,
            <<"profileId", EncUint(d.ProfileID)>>,
            <<"deviceType", EncUint(d.DeviceType)>>,
            <<"deviceId", EncUint(d.DeviceID)>>,
            <<"manufacturerCode", EncUint(d.ManufacturerCode)>>,
            <<"deviceVersion", EncUint(d.DeviceVersion)>>,
            <<"inputClusterIds", EncUintSlice(d.InputClusterIds)>>,
            <<"outputClusterIds", EncUintSlice(d.OutputClusterIds)>>,
            <<"label", EncString(d.Label)>> >>)

EncGroupAddress(g) ==
    JObj(<< <<"groupId", EncUint(g.GroupID)>>,
            <<"label", EncString(g.Label)>> >>)

EncDevices(s) ==
    IF s.nil THEN JNull ELSE JArr([i \in DOMAIN s.elems |-> EncDevice(s.elems[i])])

EncGroups(s) ==
    IF s.nil THEN JNull
    ELSE JArr([i \in DOMAIN s.elems |-> EncGroupAddress(s.elems[i])])

\* json.Marshal(&serializedNetwork{Devices: ds, Groups: gs})
EncState(ds, gs) ==
    JObj(<< <<"devices", EncDevices(ds)>>, <<"groups", EncGroups(gs)>> >>)

DigitValue(c) == CASE c = "0" -> 0 [] c = "1" -> 1 [] c = "2" -> 2 [] c = "3" -> 3
                   [] c = "4" -> 4 [] c = "5" -> 5 [] c = "6" -> 6 [] c = "7" -> 7
                   [] c = "8" -> 8 [] c = "9" -> 9

IsDigits(s) ==
    /\ Len(s) > 0
    /\ \A i \in DOMAIN s : s[i] \in {"0", "1", "2", "3", "4", "5", "6", "7", "8", "9"}

RECURSIVE ParseUint(_)
ParseUint(s) == IF Len(s) = 0 THEN 0
                ELSE 10 * ParseUint(SubSeq(s, 1, Len(s) - 1)) + DigitValue(s[Len(s)])

\* The decoders return [err, val]: cur is the value the target holds, which
\* a null leaves alone.  A value of the wrong JSON type is an
\* UnmarshalTypeError; the decoder goes on and reports it at the end.
Decoded(e, x) == [err |-> e, val |-> x]

\* into a uint32 or uint64: a number that is not a plain run of digits
\* (negative, fractional) does not fit
DecUint(j, cur) ==
    CASE j.t = "null" -> Decoded(FALSE, cur)
      [] j.t = "num" -> IF IsDigits(j.v) THEN Decoded(FALSE, ParseUint(j.v))
                        ELSE Decoded(TRUE, cur)
      [] OTHER -> Decoded(TRUE, cur)

DecString(j, cur) ==
    CASE j.t = "null" -> Decoded(FALSE, cur)
      [] j.t = "str" -> Decoded(FALSE, j.v)
      [] OTHER -> Decoded(TRUE, cur)

\* the slice of the decoded elements, and whether any of them failed
DecodedSlice(each) ==
    Decoded(\E i \in DOMAIN each : each[i].err,
            MakeSlice([i \in DOMAIN each |-> each[i].val]))

DecUintSlice(j, cur) ==
    CASE j.t = "null" -> Decoded(FALSE, NilSlice)
      [] j.t = "arr" -> DecodedSlice([i \in DOMAIN j.v |-> DecUint(j.v[i], 0)])
      [] OTHER -> Decoded(TRUE, cur)

HasMember(members, name) == \E i \in DOMAIN members : members[i][1] = name

\* the value of the last member named name, or null when there is none
\* (a field without a member keeps its value, as with null)
Member(members, name) ==
    IF HasMember(members, name)
    THEN members[CHOOSE i \in DOMAIN members :
                    /\ members[i][1] = name
                    /\ \A k \in DOMAIN members : members[k][1] = name => k <= i][2]
    ELSE JNull

\* a slice field: a member null sets it to nil, no member leaves it
DecUintSliceField(members, name, cur) ==
    IF HasMember(members, name) THEN DecUintSlice(Member(members, name), cur)
    ELSE Decoded(FALSE, cur)

DecodedDeviceAddress(na, ep) ==
    Decoded(na.err \/ ep.err, [NetworkAddress |-> na.val, Endpoint |-> ep.val])

DecDeviceAddress(j, cur) ==
    CASE j.t = "null" -> Decoded(FALSE, cur)
      [] j.t = "obj" ->
            DecodedDeviceAddress(
                DecUint(Member(j.v, "networkAddress"), cur.NetworkAddress),
                DecUint(Member(j.v, "endpoint"), cur.Endpoint))
      [] OTHER -> Decoded(TRUE, cur)

DecodedDevice(ie, na, pr, dt, di, mc, dv, ic, oc, lb) ==
    Decoded(ie.err \/ na.err \/ pr.err \/ dt.err \/ di.err \/ mc.err
                \/ dv.err \/ ic.err \/ oc.err \/ lb.err,
            [IEEEAddress |-> ie.val, NetworkAddress |-> na.val,
             ProfileID |-> pr.val, DeviceType |-> dt.val,
             DeviceID |-> di.val, ManufacturerCode |-> mc.val,
             DeviceVersion |-> dv.val, InputClusterIds |-> ic.val,
             OutputClusterIds |-> oc.val, Label |-> lb.val])

DecDevice(j, cur) ==
    CASE j.t = "null" -> Decoded(FALSE, cur)
      [] j.t = "obj" ->
            DecodedDevice(
                DecUint(Member(j.v, "ieeeAddress"), cur.IEEEAddress),
                DecDeviceAddress(Member(j.v, "networkAddress"), cur.NetworkAddress),
                DecUint(Member(j.v, "profileId"), cur.ProfileID),
                DecUint(Member(j.v, "deviceType"), cur.DeviceType),
                DecUint(Member(j.v, "deviceId"), cur.DeviceID),
                DecUint(Member(j.v, "manufacturerCode"), cur.ManufacturerCode),
                DecUint(Member(j.v, "deviceVersion"), cur.DeviceVersion),
                DecUintSliceField(j.v, "inputClusterIds", cur.InputClusterIds),
                DecUintSliceField(j.v, "outputClusterIds", cur.OutputClusterIds),
                DecString(Member(j.v, "label"), cur.Label))
      [] OTHER -> Decoded(TRUE, cur)

DecodedGroupAddress(id, lb) ==
    Decoded(id.err \/ lb.err, [GroupID |-> id.val, Label |-> lb.val])

DecGroupAddress(j, cur) ==
    CASE j.t = "null" -> Decoded(FALSE, cur)
      [] j.t = "obj" ->
            DecodedGroupAddress(DecUint(Member(j.v, "groupId"), cur.GroupID),
                                DecString(Member(j.v, "label"), cur.Label))
      [] OTHER -> Decoded(TRUE, cur)

DecDevices(j, cur) ==
    CASE j.t = "null" -> Decoded(FALSE, NilSlice)
      [] j.t = "arr" ->
            DecodedSlice([i \in DOMAIN j.v |-> DecDevice(j.v[i], ZeroDevice)])
      [] OTHER -> Decoded(TRUE, cur)

DecGroups(j, cur) ==
    CASE j.t = "null" -> Decoded(FALSE, NilSlice)
      [] j.t = "arr" ->
            DecodedSlice([i \in DOMAIN j.v |-> DecGroupAddress(j.v[i], ZeroGroupAddress)])
      [] OTHER -> Decoded(TRUE, cur)

ZeroState == [Devices |-> NilSlice, Groups |-> NilSlice]

DecodedState(ds, gs) ==
    Decoded(ds.err \/ gs.err, [Devices |-> ds.val, Groups |-> gs.val])

\* "var state serializedNetwork; err := json.Unmarshal(data, &state)"
DecState(data) ==
    CASE data.t = "invalid" -> Decoded(TRUE, ZeroState)
      [] data.t = "null" -> Decoded(FALSE, ZeroState)
      [] data.t = "obj" ->
            DecodedState(
                IF HasMember(data.v, "devices")
                THEN DecDevices(Member(data.v, "devices"), NilSlice)
                ELSE Decoded(FALSE, NilSlice),
                IF HasMember(data.v, "groups")
                THEN DecGroups(Member(data.v, "groups"), NilSlice)
                ELSE Decoded(FALSE, NilSlice))
      [] OTHER -> Decoded(TRUE, ZeroState)

---------------------------------------------------------------------------
\* The registry (type Network) and what surrounds it

VARIABLES
    devices,     \* n.devices: key string -> Device
    groups,      \* n.groups: group id -> GroupAddress
    listeners,   \* n.listeners, in slice order
    reset,       \* n.reset
    file,        \* the file at n.filePath: [exists, data, from]
    op,          \* the call that returned last: its name, argument and result
                 \* (for RemoveDevice also what the registry held for the address)
    calls,       \* the listener callbacks that call made, in order
    hist,        \* history: what was upserted and inserted since construction
    reg,         \* history: the registered listeners by time of registration
    heap,        \* the backing arrays of the slices the callers made
    mx,          \* devicesMx, groupsMx, listenersMx
    stacks,      \* per goroutine, the frames of the calls it is in
    trace        \* history: the map writes and the callbacks, in order

\* what the calls that run alone, start to end, leave as it is
rest == <<heap, mx, stacks, trace>>

vars == <<devices, groups, listeners, reset, file, op, calls, hist, reg, rest>>

Void == "void"

NoError == "nil"

\* history kept with the file: the registry that wrote it
NoOrigin == [devs |-> {}, grps |-> {}, D |-> {}, G |-> {}, pure |-> FALSE]

NoFile == [exists |-> FALSE, data |-> Garbage, from |-> NoOrigin]

FreshHist == [devs |-> {}, grps |-> {}, D |-> {}, G |-> {}, pure |-> TRUE]

FreshReg == [order |-> <<>>, removed |-> FALSE]

Range(s) == {s[i] : i \in DOMAIN s}

\* the goroutines that call into the registry
Threads == 1..NumThreads

Mutexes == {"devicesMx", "groupsMx", "listenersMx"}

\* a sync.RWMutex: the goroutine that called Lock and was let in ahead of
\* the other writers (0: none), how many times each goroutine holds the
\* read lock, and the goroutines that wait in RLock behind a writer
FreeMutex == [writer |-> 0, readers |-> [t \in Threads |-> 0], queued |-> {}]

\* history of the goroutines: the calls each has started, the writes to the
\* device map and the listener callbacks in the order they happened, and
\* the two maps as the last completed write left them
NoTrace ==
    [started |-> [t \in Threads |-> 0], applied |-> <<>>, events |-> <<>>,
     devices |-> <<>>, groups |-> <<>>]

\* NewNetworkState(reset)
Init ==
    /\ devices = EmptyMap
    /\ groups = EmptyMap
    /\ listeners = <<>>
    /\ reset \in BOOLEAN
    /\ file = NoFile
    /\ op = [name |-> "NewNetworkState", arg |-> reset, ret |-> Void]
    /\ calls = <<>>
    /\ hist = FreshHist
    /\ reg = FreshReg
    /\ heap = <<>>
    /\ mx = [m \in Mutexes |-> FreeMutex]
    /\ stacks = [t \in Threads |-> <<>>]
    /\ trace = NoTrace

\* history: the latest upsert of each address / group id that no removal
\* followed, and the values inserted while nothing but insertions happened
HistUpsertDevice(h, d, insert) ==
    [h EXCEPT !.devs = {x \in @ : x.NetworkAddress # d.NetworkAddress} \cup {d},
              !.D = IF insert /\ h.pure THEN @ \cup {d} ELSE {},
              !.G = IF insert /\ h.pure THEN @ ELSE {},
              !.pure = insert /\ @]

HistRemoveDevice(h, d) ==
    [h EXCEPT !.devs = {x \in @ : x.NetworkAddress # d.NetworkAddress},
              !.D = {}, !.G = {}, !.pure = FALSE]

HistUpsertGroup(h, g, insert) ==
    [h EXCEPT !.grps = {x \in @ : x.GroupID # g.GroupID} \cup {g},
              !.G = IF insert /\ h.pure THEN @ \cup {g} ELSE {},
              !.D = IF insert /\ h.pure THEN @ ELSE {},
              !.pure = insert /\ @]

HistRemoveGroup(h, g) ==
    [h EXCEPT !.grps = {x \in @ : x.GroupID # g.GroupID},
              !.D = {}, !.G = {}, !.pure = FALSE]

RECURSIVE HistMerge(_, _, _)
HistMerge(h, ds, gs) ==
    IF Len(ds) > 0 THEN HistMerge(HistUpsertDevice(h, Head(ds), FALSE), Tail(ds), gs)
    ELSE IF Len(gs) > 0 THEN HistMerge(HistUpsertGroup(h, Head(gs), FALSE), ds, Tail(gs))
    ELSE [h EXCEPT !.D = {}, !.G = {}, !.pure = FALSE]

---------------------------------------------------------------------------
\* Groups

\* faulty variant: an insert that leaves an existing entry alone
PutGroupIfAbsent(m, address) ==
    IF address.GroupID \in DOMAIN m THEN m ELSE MapPut(m, address.GroupID, address)

\* n.groups[address.GroupID] = address
PutGroup(m, address) == MapPut(m, address.GroupID, address)

DeleteGroup(m, address) == MapDelete(m, address.GroupID)

AddGroup(address) ==
    /\ groups' = PutGroup(groups, address)
    /\ op' = [name |-> "AddGroup", arg |-> address, ret |-> Void]
    /\ calls' = <<>>
    /\ hist' = HistUpsertGroup(hist, address, TRUE)
    /\ UNCHANGED <<rest, devices, listeners, reset, file, reg>>

UpdateGroup(address) ==
    /\ groups' = PutGroup(groups, address)
    /\ op' = [name |-> "UpdateGroup", arg |-> address, ret |-> Void]
    /\ calls' = <<>>
    /\ hist' = HistUpsertGroup(hist, address, FALSE)
    /\ UNCHANGED <<rest, devices, listeners, reset, file, reg>>

RemoveGroup(address) ==
    /\ groups' = DeleteGroup(groups, address)
    /\ op' = [name |-> "RemoveGroup", arg |-> address, ret |-> Void]
    /\ calls' = <<>>
    /\ hist' = HistRemoveGroup(hist, address)
    /\ UNCHANGED <<rest, devices, listeners, reset, file, reg>>

\* address, ok := n.groups[groupID]
LookupGroup(m, groupID) == MapGet(m, groupID, ZeroGroupAddress)

Group(groupID) ==
    /\ op' = [name |-> "Group", arg |-> groupID, ret |-> LookupGroup(groups, groupID)]
    /\ calls' = <<>>
    /\ UNCHANGED <<rest, devices, groups, listeners, reset, file, hist, reg>>

GroupsResults(m) == MapValues(m)

Groups ==
    /\ \E result \in GroupsResults(groups) :
          op' = [name |-> "Groups", arg |-> Void, ret |-> result]
    /\ calls' = <<>>
    /\ UNCHANGED <<rest, devices, groups, listeners, reset, file, hist, reg>>

---------------------------------------------------------------------------
\* Devices

\* faulty variant: an insert that leaves an existing entry alone
PutDeviceIfAbsent(m, device) ==
    IF DeviceAddressString(device.NetworkAddress) \in DOMAIN m THEN m
    ELSE MapPut(m, DeviceAddressString(device.NetworkAddress), device)

\* n.devices[device.NetworkAddress.String()] = device
PutDevice(m, device) == MapPut(m, DeviceAddressString(device.NetworkAddress), device)

\* faulty variant: the entry goes only when it equals the argument
DeleteDeviceIfEqual(m, device) ==
    IF MapGet(m, DeviceAddressString(device.NetworkAddress), ZeroDevice) = <<device, TRUE>>
    THEN MapDelete(m, DeviceAddressString(device.NetworkAddress))
    ELSE m

\* delete(n.devices, device.NetworkAddress.String())
DeleteDevice(m, device) == MapDelete(m, DeviceAddressString(device.NetworkAddress))

\* faulty variant: the listeners are called last to first
NotifyBackwards(ls, event, device) ==
    [i \in DOMAIN ls |->
        [listener |-> ls[Len(ls) + 1 - i], event |-> event, device |-> device]]

\* faulty variant: every round is a round of DeviceUpdated
NotifyUpdated(ls, event, device) ==
    [i \in DOMAIN ls |-> [listener |-> ls[i], event |-> "DeviceUpdated", device |-> device]]

\* "for _, listener := range n.listeners { listener.<event>(device) }"
Notify(ls, event, device) ==
    [i \in DOMAIN ls |-> [listener |-> ls[i], event |-> event, device |-> device]]

AddDevice(device) ==
    /\ devices' = PutDevice(devices, device)
    /\ calls' = Notify(listeners, "DeviceAdded", device)
    /\ op' = [name |-> "AddDevice", arg |-> device, ret |-> Void]
    /\ hist' = HistUpsertDevice(hist, device, TRUE)
    /\ UNCHANGED <<rest, groups, listeners, reset, file, reg>>

UpdateDevice(device) ==
    /\ devices' = PutDevice(devices, device)
    /\ calls' = Notify(listeners, "DeviceUpdated", device)
    /\ op' = [name |-> "UpdateDevice", arg |-> device, ret |-> Void]
    /\ hist' = HistUpsertDevice(hist, device, FALSE)
    /\ UNCHANGED <<rest, groups, listeners, reset, file, reg>>

RemoveDevice(device) ==
    /\ devices' = DeleteDevice(devices, device)
    /\ calls' = Notify(listeners, "DeviceRemoved", device)
    /\ op' = [name |-> "RemoveDevice", arg |-> device, ret |-> Void,
              held |-> {x \in hist.devs : x.NetworkAddress = device.NetworkAddress}]
    /\ hist' = HistRemoveDevice(hist, device)
    /\ UNCHANGED <<rest, groups, listeners, reset, file, reg>>

\* faulty variant: no test of IsGroup before the lookup
LookupDeviceByString(m, address) == MapGet(m, String(address), ZeroDevice)

LookupDevice(m, address) ==
    IF IsGroup(address) THEN <<ZeroDevice, FALSE>>
    ELSE MapGet(m, String(address), ZeroDevice)

Device(address) ==
    /\ op' = [name |-> "Device", arg |-> address, ret |-> LookupDevice(devices, address)]
    /\ calls' = <<>>
    /\ UNCHANGED <<rest, devices, groups, listeners, reset, file, hist, reg>>

DevicesResults(m) == MapValues(m)

Devices ==
    /\ \E result \in DevicesResults(devices) :
          op' = [name |-> "Devices", arg |-> Void, ret |-> result]
    /\ calls' = <<>>
    /\ UNCHANGED <<rest, devices, groups, listeners, reset, file, hist, reg>>

---------------------------------------------------------------------------
\* Listeners

\* the index of the first element equal to l, 0 when there is none
IndexOf(ls, l) ==
    IF l \in Range(ls) THEN CHOOSE i \in DOMAIN ls : ls[i] = l /\ \A k \in 1..(i - 1) : ls[k] # l
    ELSE 0

\* faulty variant: no look for the listener in the list
AppendListenerAgain(ls, l) == Append(ls, l)

\* append unless the listener is already in the list
AppendListener(ls, l) == IF IndexOf(ls, l) # 0 THEN ls ELSE Append(ls, l)

\* faulty variant: the list is cut by one without the swap
DropLastListener(ls, l) ==
    IF IndexOf(ls, l) = 0 THEN ls ELSE SubSeq(ls, 1, Len(ls) - 1)

\* the last element takes the place of the removed one, the list is cut by one
DropListener(ls, l) ==
    LET i == IndexOf(ls, l)
        last == Len(ls)
    IN  IF i = 0 THEN ls ELSE SubSeq([ls EXCEPT ![i] = ls[last]], 1, last - 1)

AddNetworkListener(l) ==
    /\ listeners' = AppendListener(listeners, l)
    /\ op' = [name |-> "AddNetworkListener", arg |-> l, ret |-> Void]
    /\ calls' = <<>>
    /\ reg' = [reg EXCEPT !.order = IF l \in Range(@) THEN @ ELSE Append(@, l)]
    /\ UNCHANGED <<rest, devices, groups, reset, file, hist>>

RemoveNetworkListener(l) ==
    /\ listeners' = DropListener(listeners, l)
    /\ op' = [name |-> "RemoveNetworkListener", arg |-> l, ret |-> Void]
    /\ calls' = <<>>
    /\ reg' = [order |-> SelectSeq(reg.order, LAMBDA x : x # l),
               removed |-> reg.removed \/ l \in Range(reg.order)]
    /\ UNCHANGED <<rest, devices, groups, reset, file, hist>>

---------------------------------------------------------------------------
\* Persistence

RECURSIVE MergeDevices(_, _)
\* "for _, device := range state.Devices { n.devices[...] = device }"
MergeDevices(m, ds) ==
    IF Len(ds) = 0 THEN m ELSE MergeDevices(PutDevice(m, Head(ds)), Tail(ds))

RECURSIVE MergeGroups(_, _)
MergeGroups(m, gs) ==
    IF Len(gs) = 0 THEN m ELSE MergeGroups(PutGroup(m, Head(gs)), Tail(gs))

\* the decoded state upserted into the maps ds, gs, unless decoding failed
MergeState(state, ds, gs) ==
    IF state.err THEN [err |-> "decode error", devices |-> ds, groups |-> gs]
    ELSE [err |-> NoError,
          devices |-> MergeDevices(ds, state.val.Devices.elems),
          groups |-> MergeGroups(gs, state.val.Groups.elems)]

\* faulty variant: the decoded state replaces the maps
UnmarshalReplacing(data, ds, gs) == MergeState(DecState(data), EmptyMap, EmptyMap)

\* the body of UnmarshalJSON: [err, devices, groups] from the maps ds, gs
Unmarshal(data, ds, gs) == MergeState(DecState(data), ds, gs)

\* the documents MarshalJSON can return: Devices() and Groups() in any order
MarshalResults(ds, gs) ==
    {EncState(d, g) : d \in DevicesResults(ds), g \in GroupsResults(gs)}

IsFresh(h) == h.pure /\ h.D = {} /\ h.G = {}

HistMergeState(h, state) ==
    IF state.err THEN h
    ELSE HistMerge(h, state.val.Devices.elems, state.val.Groups.elems)

HistAfterUnmarshal(h, data) == HistMergeState(h, DecState(data))

\* documents a caller may hand to UnmarshalJSON besides the file's content
PlugOnly == EncState(MakeSlice(<<Plug>>), NilSlice)

BulbThenLamp == EncState(MakeSlice(<<Bulb, Lamp>>), MakeSlice(<<Attic>>))

\* well-formed JSON of the wrong type: the group id is a string
BadGroup ==
    JObj(<< <<"devices", EncDevices(MakeSlice(<<Plug>>))>>,
            <<"groups", JArr(<<JObj(<< <<"groupId", JStr(<<"7">>)>> >>)>>)>> >>)

Documents == {Garbage, JNull, PlugOnly, BulbThenLamp, BadGroup}

MarshalJSON ==
    /\ \E bytes \in MarshalResults(devices, groups) :
          op' = [name |-> "MarshalJSON", arg |-> Void, ret |-> <<bytes, NoError>>]
    /\ calls' = <<>>
    /\ UNCHANGED <<rest, devices, groups, listeners, reset, file, hist, reg>>

\* UnmarshalJSON returns with the outcome r of the merge
UnmarshalJSONReturns(data, r) ==
    /\ devices' = r.devices
    /\ groups' = r.groups
    /\ op' = [name |-> "UnmarshalJSON", arg |-> data, ret |-> r.err,
              fresh |-> IsFresh(hist)]
    /\ calls' = <<>>
    /\ hist' = HistAfterUnmarshal(hist, data)
    /\ UNCHANGED <<rest, listeners, reset, file, reg>>

UnmarshalJSON(data) == UnmarshalJSONReturns(data, Unmarshal(data, devices, groups))

\* os.Stat(filePath): a missing file is an error; so is, for a file that is
\* there, a directory that may not be searched or a failing disk
StatResults(f) == IF f.exists THEN {NoError, "EACCES"} ELSE {"ENOENT"}

\* ioutil.ReadFile(filePath) on a file that os.Stat found
ReadResults(f) == {NoError, "EIO"}

\* Startup returns: stat and read are what os.Stat and ioutil.ReadFile
\* gave, r the maps and the error it ends with, h the history after it
StartupReturns(stat, read, r, h) ==
    /\ devices' = r.devices
    /\ groups' = r.groups
    /\ op' = [name |-> "Startup", arg |-> Void, stat |-> stat, read |-> read,
              ret |-> r.err, fresh |-> IsFresh(hist)]
    /\ calls' = <<>>
    /\ hist' = h
    /\ UNCHANGED <<rest, listeners, reset, file, reg>>

\* errors.Wrapf(err, "Unable to unmarshal network state from file %s", ...)
WrapUnmarshal(r) ==
    [r EXCEPT !.err = IF @ = NoError THEN NoError
                      ELSE "Unable to unmarshal network state"]

Startup ==
    \E stat \in StatResults(file) :
       IF ~reset /\ stat = NoError
       THEN \E read \in ReadResults(file) :
               IF read # NoError
               THEN StartupReturns(stat, read,
                                   [err |-> "Unable to read content",
                                    devices |-> devices, groups |-> groups],
                                   hist)
               ELSE StartupReturns(stat, read,
                                   WrapUnmarshal(Unmarshal(file.data, devices, groups)),
                                   HistAfterUnmarshal(hist, file.data))
       ELSE StartupReturns(stat, "not read",
                           [err |-> NoError, devices |-> devices, groups |-> groups],
                           hist)

\* ioutil.WriteFile(filePath, bytes, 0644): the file is opened and truncated,
\* then written; either step may fail
WriteResults == {NoError, "open failed", "write failed"}

WriteFile(f, bytes, from, result) ==
    CASE result = NoError -> [exists |-> TRUE, data |-> bytes, from |-> from]
      [] result = "open failed" -> f
      [] result = "write failed" -> [NoFile EXCEPT !.exists = TRUE]

Shutdown ==
    \E bytes \in MarshalResults(devices, groups), result \in WriteResults :
       /\ file' = WriteFile(file, bytes, hist, result)
       /\ op' = [name |-> "Shutdown", arg |-> Void,
                 ret |-> IF result = NoError THEN NoError
                         ELSE "Unabel to write content"]
       /\ calls' = <<>>
       /\ UNCHANGED <<rest, devices, groups, listeners, reset, hist, reg>>

\* the process starts again: a new registry, the file stays
NewNetworkState(r) ==
    /\ devices' = EmptyMap
    /\ groups' = EmptyMap
    /\ listeners' = <<>>
    /\ reset' = r
    /\ op' = [name |-> "NewNetworkState", arg |-> r, ret |-> Void]
    /\ calls' = <<>>
    /\ hist' = FreshHist
    /\ reg' = FreshReg
    /\ UNCHANGED <<rest, file>>

---------------------------------------------------------------------------
\* The methods statement by statement, as the goroutines run them.  A body
\* is the sequence of the statements of the method; the deferred calls
\* stand at its end, last deferred first.

Lock(m) == [do |-> "Lock", m |-> m]

Unlock(m) == [do |-> "Unlock", m |-> m]

RLock(m) == [do |-> "RLock", m |-> m]

RUnlock(m) == [do |-> "RUnlock", m |-> m]

Do(what) == [do |-> what]

Call(fn) == [do |-> "Call", fn |-> fn]

AddGroupBody == <<Lock("groupsMx"), Do("PutGroup"), Unlock("groupsMx")>>

UpdateGroupBody == <<Lock("groupsMx"), Do("PutGroup"), Unlock("groupsMx")>>

RemoveGroupBody == <<Lock("groupsMx"), Do("DeleteGroup"), Unlock("groupsMx")>>

GroupBody == <<RLock("groupsMx"), Do("LookupGroup"), RUnlock("groupsMx")>>

GroupsBody == <<RLock("groupsMx"), Do("RangeGroups"), RUnlock("groupsMx")>>

\* faulty variant: the listeners are told before the map is written
AddDeviceBodyNotifyFirst ==
    <<Lock("devicesMx"), RLock("listenersMx"),
      [do |-> "Notify", event |-> "DeviceAdded"], RUnlock("listenersMx"),
      Do("PutDevice"), Unlock("devicesMx")>>

AddDeviceBody ==
    <<Lock("devicesMx"), Do("PutDevice"), RLock("listenersMx"),
      [do |-> "Notify", event |-> "DeviceAdded"],
      RUnlock("listenersMx"), Unlock("devicesMx")>>

\* faulty variant: the device map is unlocked before the listeners are told
UpdateDeviceBodyUnlockEarly ==
    <<Lock("devicesMx"), Do("PutDevice"), Unlock("devicesMx"),
      RLock("listenersMx"), [do |-> "Notify", event |-> "DeviceUpdated"],
      RUnlock("listenersMx")>>

UpdateDeviceBody ==
    <<Lock("devicesMx"), Do("PutDevice"), RLock("listenersMx"),
      [do |-> "Notify", event |-> "DeviceUpdated"],
      RUnlock("listenersMx"), Unlock("devicesMx")>>

\* faulty variant: the device map is unlocked before the listeners are told
RemoveDeviceBodyUnlockEarly ==
    <<Lock("devicesMx"), Do("DeleteDevice"), Unlock("devicesMx"),
      RLock("listenersMx"), [do |-> "Notify", event |-> "DeviceRemoved"],
      RUnlock("listenersMx")>>

RemoveDeviceBody ==
    <<Lock("devicesMx"), Do("DeleteDevice"), RLock("listenersMx"),
      [do |-> "Notify", event |-> "DeviceRemoved"],
      RUnlock("listenersMx"), Unlock("devicesMx")>>

DeviceBody ==
    <<Do("IsGroup"), RLock("devicesMx"), Do("LookupDevice"), RUnlock("devicesMx")>>

DevicesBody == <<RLock("devicesMx"), Do("RangeDevices"), RUnlock("devicesMx")>>

AddNetworkListenerBody ==
    <<Lock("listenersMx"), Do("AppendListener"), Unlock("listenersMx")>>

RemoveNetworkListenerBody ==
    <<Lock("listenersMx"), Do("DropListener"), Unlock("listenersMx")>>

\* faulty variant: the snapshot without the read locks of MarshalJSON itself
MarshalJSONBodyUnlocked == <<Call("Devices"), Call("Groups"), Do("Encode")>>

MarshalJSONBody ==
    <<RLock("devicesMx"), RLock("groupsMx"), Call("Devices"), Call("Groups"),
      Do("Encode"), RUnlock("groupsMx"), RUnlock("devicesMx")>>

\* faulty variant: the maps are written without their locks
UnmarshalJSONBodyUnlocked ==
    <<Do("Decode"), Do("MergeDevices"), Do("MergeGroups")>>

UnmarshalJSONBody ==
    <<Do("Decode"), Lock("devicesMx"), Lock("groupsMx"),
      Do("MergeDevices"), Do("MergeGroups"),
      Unlock("groupsMx"), Unlock("devicesMx")>>

StartupBody == <<Do("Stat"), Do("ReadFile"), Call("UnmarshalJSON"), Do("Wrap")>>

ShutdownBody == <<Call("MarshalJSON"), Do("WriteFile")>>

Body(fn) ==
    CASE fn = "AddGroup" -> AddGroupBody
      [] fn = "UpdateGroup" -> UpdateGroupBody
      [] fn = "RemoveGroup" -> RemoveGroupBody
      [] fn = "Group" -> GroupBody
      [] fn = "Groups" -> GroupsBody
      [] fn = "AddDevice" -> AddDeviceBody
      [] fn = "UpdateDevice" -> UpdateDeviceBody
      [] fn = "RemoveDevice" -> RemoveDeviceBody
      [] fn = "Device" -> DeviceBody
      [] fn = "Devices" -> DevicesBody
      [] fn = "AddNetworkListener" -> AddNetworkListenerBody
      [] fn = "RemoveNetworkListener" -> RemoveNetworkListenerBody
      [] fn = "MarshalJSON" -> MarshalJSONBody
      [] fn = "UnmarshalJSON" -> UnmarshalJSONBody
      [] fn = "Startup" -> StartupBody
      [] fn = "Shutdown" -> ShutdownBody

---------------------------------------------------------------------------
\* Frames.  A goroutine is a stack of frames, the innermost last.  A frame
\* holds the method, its argument, the statement it is at (pc), where it is
\* within that statement (at: "" before it, "wait" blocked in it, "ranging"
\* within its loop, "callback" inside a listener, "reentered" inside a
\* listener that called the registry), the loop's position (loop), its
\* locals (acc), the value it returns (ret) and, as history, every content of
\* the maps it reads that was current since it began (seen).

ReadFns == {"Device", "Devices", "Group", "Groups", "MarshalJSON"}

View(fn, ds, gs) ==
    CASE fn \in {"Device", "Devices"} -> ds
      [] fn \in {"Group", "Groups"} -> gs
      [] OTHER -> <<ds, gs>>

Frame(fn, arg) ==
    [fn |-> fn, arg |-> arg, pc |-> 1, at |-> "", loop |-> <<>>, acc |-> <<>>,
     ret |-> Void,
     seen |-> IF fn \in ReadFns THEN {View(fn, trace.devices, trace.groups)} ELSE {}]

Running(t) == stacks[t] # <<>>

Top(t) == stacks[t][Len(stacks[t])]

Stmt(f) == Body(f.fn)[f.pc]

\* goroutine t is about to run (or is within) a statement of this kind
At(t, do, at) == Running(t) /\ Top(t).at = at /\ Stmt(Top(t)).do = do

Finished(f) == f.pc > Len(Body(f.fn))

\* on to the next statement
Advance(f) == [f EXCEPT !.pc = @ + 1, !.at = "", !.loop = <<>>]

\* "return v" before the deferred calls were registered
Return(f, v) == [f EXCEPT !.pc = Len(Body(f.fn)) + 1, !.at = "", !.ret = v]

\* the caller takes what the callee returned and goes on; a listener goes on
\* within its callback
Resume(caller, callee) ==
    IF caller.at = "reentered" THEN caller
    ELSE [Advance(caller) EXCEPT !.acc = Append(@, callee.ret)]

RECURSIVE Settle(_)
\* the frames that have run their last statement return to their callers;
\* the outermost one stays for its result to be taken
Settle(s) ==
    IF Len(s) <= 1 \/ ~Finished(s[Len(s)]) THEN s
    ELSE Settle(Append(SubSeq(s, 1, Len(s) - 2), Resume(s[Len(s) - 1], s[Len(s)])))

\* the stacks ss with f as the innermost frame of goroutine t
Put(ss, t, f) ==
    [ss EXCEPT ![t] = Settle(Append(SubSeq(ss[t], 1, Len(ss[t]) - 1), f))]

Returned(s) == Len(s) = 1 /\ Finished(s[1])

\* history: a write to the maps is complete; the calls that read them and
\* have not returned may have read this content
Observe(ss, ds, gs) ==
    [t \in Threads |->
        [k \in DOMAIN ss[t] |->
            IF ss[t][k].fn \in ReadFns
            THEN [ss[t][k] EXCEPT !.seen = @ \cup {View(ss[t][k].fn, ds, gs)}]
            ELSE ss[t][k]]]

\* the step of goroutine t ends with the stacks ss: a call of t that ran its
\* last statement returns to the caller of the registry
Finish(ss, t) ==
    /\ stacks' = [ss EXCEPT ![t] = IF Returned(@) THEN <<>> ELSE @]
    /\ op' = IF Returned(ss[t])
             THEN [name |-> ss[t][1].fn, arg |-> ss[t][1].arg, ret |-> ss[t][1].ret,
                   seen |-> ss[t][1].seen, thread |-> t]
             ELSE op

---------------------------------------------------------------------------
\* sync.RWMutex

NoReaders(x) == \A u \in Threads : x.readers[u] = 0

\* Lock: one writer at a time gets past the mutex's inner lock and announces
\* itself; it then waits for the readers that hold the lock to leave
RWMutexLock(t) ==
    /\ At(t, "Lock", "")
    /\ LET m == Stmt(Top(t)).m
       IN  /\ mx[m].writer = 0
           /\ mx' = [mx EXCEPT ![m].writer = t]
           /\ Finish(Put(stacks, t, IF NoReaders(mx[m]) THEN Advance(Top(t))
                                    ELSE [Top(t) EXCEPT !.at = "wait"]), t)
    /\ UNCHANGED <<devices, groups, listeners, reset, file, calls, hist, reg,
                   heap, trace>>

\* Unlock: the readers that queued behind the writer are let in, then the
\* next writer may announce itself
RWMutexUnlock(t) ==
    /\ At(t, "Unlock", "")
    /\ LET m == Stmt(Top(t)).m
           x == mx[m]
       IN  /\ mx' = [mx EXCEPT ![m] =
                       [writer |-> 0,
                        readers |-> [u \in Threads |->
                                       x.readers[u] + IF u \in x.queued THEN 1 ELSE 0],
                        queued |-> {}]]
           /\ Finish(Put([u \in Threads |->
                            IF u \in x.queued
                            THEN [stacks[u] EXCEPT ![Len(stacks[u])] = Advance(@)]
                            ELSE stacks[u]],
                         t, Advance(Top(t))), t)
    /\ UNCHANGED <<devices, groups, listeners, reset, file, calls, hist, reg,
                   heap, trace>>

\* RLock: a reader is let in unless a writer holds the lock or waits for it
RWMutexRLock(t) ==
    /\ At(t, "RLock", "")
    /\ LET m == Stmt(Top(t)).m
       IN  IF mx[m].writer = 0
           THEN /\ mx' = [mx EXCEPT ![m].readers[t] = @ + 1]
                /\ Finish(Put(stacks, t, Advance(Top(t))), t)
           ELSE /\ mx' = [mx EXCEPT ![m].queued = @ \cup {t}]
                /\ Finish(Put(stacks, t, [Top(t) EXCEPT !.at = "wait"]), t)
    /\ UNCHANGED <<devices, groups, listeners, reset, file, calls, hist, reg,
                   heap, trace>>

\* RUnlock: the last reader to leave lets the waiting writer in
RWMutexRUnlock(t) ==
    /\ At(t, "RUnlock", "")
    /\ LET m == Stmt(Top(t)).m
           x == [mx[m] EXCEPT !.readers[t] = @ - 1]
           w == x.writer
       IN  /\ mx[m].readers[t] > 0
           /\ mx' = [mx EXCEPT ![m] = x]
           /\ Finish(Put(IF /\ w # 0 /\ NoReaders(x)
                            /\ At(w, "Lock", "wait") /\ Stmt(Top(w)).m = m
                         THEN [stacks EXCEPT ![w][Len(stacks[w])] = Advance(@)]
                         ELSE stacks,
                         t, Advance(Top(t))), t)
    /\ UNCHANGED <<devices, groups, listeners, reset, file, calls, hist, reg,
                   heap, trace>>

---------------------------------------------------------------------------
\* The statements on the maps and on the listener list

RECURSIVE Started(_, _)
\* the calls the goroutines 1..n have started
Started(tr, n) == IF n = 0 THEN 0 ELSE tr.started[n] + Started(tr, n - 1)

\* history: the write of goroutine t to the device map
Applied(t, device) ==
    [thread |-> t, n |-> trace.started[t], fn |-> Top(t).fn,
     key |-> DeviceAddressString(device.NetworkAddress), device |-> device]

\* history: the maps ds, gs are what a completed write left
Commit(tr, ds, gs) == [tr EXCEPT !.devices = ds, !.groups = gs]

\* n.groups[address.GroupID] = address
PutGroupStmt(t) ==
    /\ At(t, "PutGroup", "")
    /\ groups' = PutGroup(groups, Top(t).arg)
    /\ trace' = Commit(trace, devices, groups')
    /\ Finish(Observe(Put(stacks, t, Advance(Top(t))), devices, groups'), t)
    /\ UNCHANGED <<devices, listeners, reset, file, calls, hist, reg, heap, mx>>

\* delete(n.groups, address.GroupID)
DeleteGroupStmt(t) ==
    /\ At(t, "DeleteGroup", "")
    /\ groups' = DeleteGroup(groups, Top(t).arg)
    /\ trace' = Commit(trace, devices, groups')
    /\ Finish(Observe(Put(stacks, t, Advance(Top(t))), devices, groups'), t)
    /\ UNCHANGED <<devices, listeners, reset, file, calls, hist, reg, heap, mx>>

\* address, ok := n.groups[groupID]; return address, ok
LookupGroupStmt(t) ==
    /\ At(t, "LookupGroup", "")
    /\ Finish(Put(stacks, t,
                  Advance([Top(t) EXCEPT !.ret = LookupGroup(groups, Top(t).arg)])), t)
    /\ UNCHANGED <<devices, groups, listeners, reset, file, calls, hist, reg,
                   heap, mx, trace>>

\* the frame f after the loop over the map m has come to key k: the loop is
\* over when no key is left
Ranged(f, m, k) ==
    IF DOMAIN m \subseteq Range(f.loop) \cup {k}
    THEN Advance([f EXCEPT !.ret = MakeSlice(Append(f.acc, m[k]))])
    ELSE [f EXCEPT !.at = "ranging", !.loop = Append(@, k), !.acc = Append(@, m[k])]

\* "var result []GroupAddress; for _, address := range n.groups {...}": one
\* turn of the loop, at a key not visited yet
RangeGroupsStmt(t) ==
    /\ \/ At(t, "RangeGroups", "")
       \/ At(t, "RangeGroups", "ranging")
    /\ IF DOMAIN groups \subseteq Range(Top(t).loop)
       THEN Finish(Put(stacks, t, Advance([Top(t) EXCEPT !.ret = NilSlice])), t)
       ELSE \E k \in DOMAIN groups \ Range(Top(t).loop) :
               Finish(Put(stacks, t, Ranged(Top(t), groups, k)), t)
    /\ UNCHANGED <<devices, groups, listeners, reset, file, calls, hist, reg,
                   heap, mx, trace>>

\* n.devices[device.NetworkAddress.String()] = device
PutDeviceStmt(t) ==
    /\ At(t, "PutDevice", "")
    /\ devices' = PutDevice(devices, Top(t).arg)
    /\ trace' = [Commit(trace, devices', groups)
                    EXCEPT !.applied = Append(@, Applied(t, Top(t).arg))]
    /\ Finish(Observe(Put(stacks, t, Advance(Top(t))), devices', groups), t)
    /\ UNCHANGED <<groups, listeners, reset, file, calls, hist, reg, heap, mx>>

\* delete(n.devices, device.NetworkAddress.String())
DeleteDeviceStmt(t) ==
    /\ At(t, "DeleteDevice", "")
    /\ devices' = DeleteDevice(devices, Top(t).arg)
    /\ trace' = [Commit(trace, devices', groups)
                    EXCEPT !.applied = Append(@, Applied(t, Top(t).arg))]
    /\ Finish(Observe(Put(stacks, t, Advance(Top(t))), devices', groups), t)
    /\ UNCHANGED <<groups, listeners, reset, file, calls, hist, reg, heap, mx>>

\* "if address.IsGroup() { return Device{}, false }"
IsGroupStmt(t) ==
    /\ At(t, "IsGroup", "")
    /\ Finish(Put(stacks, t, IF IsGroup(Top(t).arg)
                             THEN Return(Top(t), <<ZeroDevice, FALSE>>)
                             ELSE Advance(Top(t))), t)
    /\ UNCHANGED <<devices, groups, listeners, reset, file, calls, hist, reg,
                   heap, mx, trace>>

\* device, ok := n.devices[address.String()]; return device, ok
LookupDeviceStmt(t) ==
    /\ At(t, "LookupDevice", "")
    /\ Finish(Put(stacks, t,
                  Advance([Top(t) EXCEPT !.ret = LookupDevice(devices, Top(t).arg)])), t)
    /\ UNCHANGED <<devices, groups, listeners, reset, file, calls, hist, reg,
                   heap, mx, trace>>

\* "var result []Device; for _, device := range n.devices {...}"
RangeDevicesStmt(t) ==
    /\ \/ At(t, "RangeDevices", "")
       \/ At(t, "RangeDevices", "ranging")
    /\ IF DOMAIN devices \subseteq Range(Top(t).loop)
       THEN Finish(Put(stacks, t, Advance([Top(t) EXCEPT !.ret = NilSlice])), t)
       ELSE \E k \in DOMAIN devices \ Range(Top(t).loop) :
               Finish(Put(stacks, t, Ranged(Top(t), devices, k)), t)
    /\ UNCHANGED <<devices, groups, listeners, reset, file, calls, hist, reg,
                   heap, mx, trace>>

\* the loop over the listeners "for _, l := range n.listeners" of
\* AddNetworkListener, and the append
AppendListenerStmt(t) ==
    /\ At(t, "AppendListener", "")
    /\ listeners' = AppendListener(listeners, Top(t).arg)
    /\ Finish(Put(stacks, t, Advance(Top(t))), t)
    /\ UNCHANGED <<devices, groups, reset, file, calls, hist, reg, heap, mx, trace>>

\* the loop of RemoveNetworkListener
DropListenerStmt(t) ==
    /\ At(t, "DropListener", "")
    /\ listeners' = DropListener(listeners, Top(t).arg)
    /\ Finish(Put(stacks, t, Advance(Top(t))), t)
    /\ UNCHANGED <<devices, groups, reset, file, calls, hist, reg, heap, mx, trace>>

---------------------------------------------------------------------------
\* Notification, nested calls, the codec and the file

\* the frame f inside the callback of the first listener of todo
Calling(f, todo) == [f EXCEPT !.at = "callback", !.loop = todo]

\* history: the callback of listener l that the round of goroutine t makes
Event(t, l) ==
    [listener |-> l, event |-> Stmt(Top(t)).event, device |-> Top(t).arg,
     thread |-> t, n |-> trace.started[t]]

\* "for _, listener := range n.listeners { listener.<event>(device) }": the
\* range is evaluated and the first listener is called
NotifyStmt(t) ==
    /\ At(t, "Notify", "")
    /\ IF listeners = <<>>
       THEN /\ Finish(Put(stacks, t, Advance(Top(t))), t)
            /\ UNCHANGED trace
       ELSE /\ Finish(Put(stacks, t, Calling(Top(t), listeners)), t)
            /\ trace' = [trace EXCEPT !.events = Append(@, Event(t, listeners[1]))]
    /\ UNCHANGED <<devices, groups, listeners, reset, file, calls, hist, reg,
                   heap, mx>>

\* the callback returns: the next listener is called, or the loop is over
CallbackReturns(t) ==
    /\ \/ At(t, "Notify", "callback")
       \/ At(t, "Notify", "reentered")
    /\ Len(stacks[t]) >= 1
    /\ IF Tail(Top(t).loop) = <<>>
       THEN /\ Finish(Put(stacks, t, Advance(Top(t))), t)
            /\ UNCHANGED trace
       ELSE /\ Finish(Put(stacks, t, Calling(Top(t), Tail(Top(t).loop))), t)
            /\ trace' = [trace EXCEPT
                            !.events = Append(@, Event(t, Top(t).loop[2]))]
    /\ UNCHANGED <<devices, groups, listeners, reset, file, calls, hist, reg,
                   heap, mx>>

\* a listener calls the registry from within its callback
Reenter(t, call) ==
    /\ At(t, "Notify", "callback")
    /\ stacks' = [stacks EXCEPT ![t] =
                    Append([@ EXCEPT ![Len(@)].at = "reentered"],
                           Frame(call.fn, call.arg))]
    /\ UNCHANGED <<devices, groups, listeners, reset, file, op, calls, hist, reg,
                   heap, mx, trace>>

\* n.Devices(), n.Groups(), json.Marshal(n), json.Unmarshal(bytes, n)
CallStmt(t) ==
    /\ At(t, "Call", "")
    /\ stacks' = [stacks EXCEPT ![t] =
                    Append(@, Frame(Stmt(Top(t)).fn,
                                    IF Stmt(Top(t)).fn = "UnmarshalJSON"
                                    THEN Top(t).acc[1] ELSE Void))]
    /\ UNCHANGED <<devices, groups, listeners, reset, file, op, calls, hist, reg,
                   heap, mx, trace>>

\* return json.Marshal(state)
EncodeStmt(t) ==
    /\ At(t, "Encode", "")
    /\ Finish(Put(stacks, t,
                  Advance([Top(t) EXCEPT
                              !.ret = <<EncState(Top(t).acc[1], Top(t).acc[2]),
                                        NoError>>])), t)
    /\ UNCHANGED <<devices, groups, listeners, reset, file, calls, hist, reg,
                   heap, mx, trace>>

\* "if err := json.Unmarshal(data, &state); err != nil { return err }"
Decoding(f, state) ==
    IF state.err THEN Return(f, "decode error")
    ELSE Advance([f EXCEPT !.acc = <<state.val>>, !.ret = NoError])

DecodeStmt(t) ==
    /\ At(t, "Decode", "")
    /\ Finish(Put(stacks, t, Decoding(Top(t), DecState(Top(t).arg))), t)
    /\ UNCHANGED <<devices, groups, listeners, reset, file, calls, hist, reg,
                   heap, mx, trace>>

\* what is left of the loop over the slice whole
Todo(f, whole) == IF f.at = "ranging" THEN f.loop ELSE whole

\* the frame after the turn of the loop for the first element of todo
Turned(f, todo) ==
    IF Len(todo) <= 1 THEN Advance(f)
    ELSE [f EXCEPT !.at = "ranging", !.loop = Tail(todo)]

\* "for _, device := range state.Devices { n.devices[...] = device }": one
\* turn of the loop
MergeDevicesStmt(t) ==
    /\ \/ At(t, "MergeDevices", "")
       \/ At(t, "MergeDevices", "ranging")
    /\ IF Todo(Top(t), Top(t).acc[1].Devices.elems) = <<>>
       THEN UNCHANGED <<devices, trace>>
       ELSE /\ devices' = PutDevice(devices,
                                    Head(Todo(Top(t), Top(t).acc[1].Devices.elems)))
            /\ trace' = [trace EXCEPT !.applied =
                           Append(@, Applied(t, Head(Todo(Top(t),
                                                   Top(t).acc[1].Devices.elems))))]
    /\ Finish(Put(stacks, t,
                  Turned(Top(t), Todo(Top(t), Top(t).acc[1].Devices.elems))), t)
    /\ UNCHANGED <<groups, listeners, reset, file, calls, hist, reg, heap, mx>>

\* "for _, group := range state.Groups { n.groups[group.GroupID] = group }":
\* one turn of the loop; after the last one the write of UnmarshalJSON to
\* the two maps is complete
MergeGroupsStmt(t) ==
    /\ \/ At(t, "MergeGroups", "")
       \/ At(t, "MergeGroups", "ranging")
    /\ groups' = IF Todo(Top(t), Top(t).acc[1].Groups.elems) = <<>> THEN groups
                 ELSE PutGroup(groups, Head(Todo(Top(t), Top(t).acc[1].Groups.elems)))
    /\ IF Len(Todo(Top(t), Top(t).acc[1].Groups.elems)) <= 1
       THEN /\ trace' = Commit(trace, devices, groups')
            /\ Finish(Observe(Put(stacks, t, Advance(Top(t))), devices, groups'), t)
       ELSE /\ UNCHANGED trace
            /\ Finish(Put(stacks, t,
                          Turned(Top(t), Todo(Top(t), Top(t).acc[1].Groups.elems))), t)
    /\ UNCHANGED <<devices, listeners, reset, file, calls, hist, reg, heap, mx>>

\* "_, err := os.Stat(filePath); if !n.reset && err == nil {...}; return nil"
StatStmt(t) ==
    /\ At(t, "Stat", "")
    /\ \E stat \in StatResults(file) :
          Finish(Put(stacks, t, IF ~reset /\ stat = NoError THEN Advance(Top(t))
                                ELSE Return(Top(t), NoError)), t)
    /\ UNCHANGED <<devices, groups, listeners, reset, file, calls, hist, reg,
                   heap, mx, trace>>

\* "bytes, err := ioutil.ReadFile(filePath); if err != nil { return ... }"
ReadFileStmt(t) ==
    /\ At(t, "ReadFile", "")
    /\ \E read \in ReadResults(file) :
          Finish(Put(stacks, t,
                     IF read # NoError THEN Return(Top(t), "Unable to read content")
                     ELSE Advance([Top(t) EXCEPT !.acc = <<file.data>>])), t)
    /\ UNCHANGED <<devices, groups, listeners, reset, file, calls, hist, reg,
                   heap, mx, trace>>

\* "if err := json.Unmarshal(bytes, n); err != nil { return errors.Wrapf(...) }"
WrapStmt(t) ==
    /\ At(t, "Wrap", "")
    /\ Finish(Put(stacks, t,
                  Advance([Top(t) EXCEPT
                              !.ret = IF Top(t).acc[2] = NoError THEN NoError
                                      ELSE "Unable to unmarshal network state"])), t)
    /\ UNCHANGED <<devices, groups, listeners, reset, file, calls, hist, reg,
                   heap, mx, trace>>

\* "if err != nil { return ... }" after json.Marshal, then ioutil.WriteFile
WriteFileStmt(t) ==
    /\ At(t, "WriteFile", "")
    /\ IF Top(t).acc[1][2] # NoError
       THEN /\ Finish(Put(stacks, t,
                          Return(Top(t), "Unable to marshal network state")), t)
            /\ UNCHANGED file
       ELSE \E result \in WriteResults :
               /\ file' = WriteFile(file, Top(t).acc[1][1], hist, result)
               /\ Finish(Put(stacks, t,
                             Advance([Top(t) EXCEPT
                                         !.ret = IF result = NoError THEN NoError
                                                 ELSE "Unabel to write content"])), t)
    /\ UNCHANGED <<devices, groups, listeners, reset, calls, hist, reg,
                   heap, mx, trace>>

\* goroutine t calls a method of the registry
Begin(t, call) ==
    /\ ~Running(t)
    /\ Started(trace, NumThreads) < MaxCalls
    /\ stacks' = [stacks EXCEPT ![t] = <<Frame(call.fn, call.arg)>>]
    /\ trace' = [trace EXCEPT !.started[t] = @ + 1]
    /\ UNCHANGED <<devices, groups, listeners, reset, file, op, calls, hist, reg,
                   heap, mx>>

---------------------------------------------------------------------------
\* Slices by reference.  A []uint32 is a pointer to a backing array with a
\* length; copying a Device copies the pointer, not the array.  The heap
\* holds the backing arrays of the devices the callers made: of whom, the
\* elements now (cells) and, as history, the elements when made.

SliceFields == {"InputClusterIds", "OutputClusterIds"}

Made(d) == \E i \in DOMAIN heap : heap[i].of[1] = d.IEEEAddress

ArrayOf(d, field) == CHOOSE i \in DOMAIN heap : heap[i].of = <<d.IEEEAddress, field>>

\* the slice header of the field of d
SliceAt(d, field) ==
    IF d[field].nil THEN [nil |-> TRUE, array |-> 0, len |-> 0]
    ELSE [nil |-> FALSE, array |-> ArrayOf(d, field), len |-> Len(d[field].elems)]

\* the Device value d as the caller holds it: its slices point into the heap
Boxed(d) ==
    [d EXCEPT !.InputClusterIds = SliceAt(d, "InputClusterIds"),
              !.OutputClusterIds = SliceAt(d, "OutputClusterIds")]

\* the elements a slice header gives access to, in the arrays as they are
\* now, or as they were made
Elements(slice, now) ==
    IF slice.nil THEN NilSlice
    ELSE MakeSlice(SubSeq(IF now THEN heap[slice.array].cells
                          ELSE heap[slice.array].made, 1, slice.len))

\* the Device value read through its slice headers
Unboxed(d, now) ==
    [d EXCEPT !.InputClusterIds = Elements(@, now),
              !.OutputClusterIds = Elements(@, now)]

\* the backing array of a slice literal
NewArray(d, field) ==
    [of |-> <<d.IEEEAddress, field>>, cells |-> d[field].elems,
     made |-> d[field].elems]

\* a caller builds the Device value d: Device{..., InputClusterIds:
\* []uint32{...}, ...}
MakeDevice(d) ==
    /\ ~Made(d)
    /\ heap' = heap \o
                 SelectSeq(<<NewArray(d, "InputClusterIds"),
                             NewArray(d, "OutputClusterIds")>>,
                           LAMBDA a : ~d[a.of[2]].nil)
    /\ op' = [name |-> "MakeDevice", arg |-> d, ret |-> Void]
    /\ calls' = <<>>
    /\ UNCHANGED <<devices, groups, listeners, reset, file, hist, reg, mx, stacks,
                   trace>>

\* the Device values the caller got from the last call, or a listener from
\* its callbacks
Handed ==
    (IF op.name = "Device" /\ op.ret[2] THEN {op.ret[1]}
     ELSE IF op.name = "Devices" THEN Range(op.ret.elems)
     ELSE {})
        \cup {calls[k].device : k \in DOMAIN calls}

\* the caller (or the listener) assigns to an element of a cluster id list
\* of a Device value it was handed: "d.InputClusterIds[i] = v"
SetClusterId(v) ==
    \E d \in Handed, field \in SliceFields :
       \E i \in 1..d[field].len :
          /\ heap' = [heap EXCEPT ![d[field].array].cells[i] = v]
          /\ op' = [name |-> "SetClusterId", arg |-> <<d, field, i, v>>, ret |-> Void]
          /\ UNCHANGED <<devices, groups, listeners, reset, file, calls, hist, reg,
                         mx, stacks, trace>>

\* the caller assigns to an element of the list Devices() returned:
\* "result[i] = Device{}"; the list is the caller's own
SetListElement ==
    /\ op.name = "Devices"
    /\ \E i \in DOMAIN op.ret.elems :
          op' = [name |-> "SetListElement", arg |-> i,
                 ret |-> MakeSlice([op.ret.elems EXCEPT ![i] = ZeroDevice])]
    /\ UNCHANGED <<devices, groups, listeners, reset, file, calls, hist, reg, rest>>

---------------------------------------------------------------------------
\* Specifications

GroupCalls ==
    \/ \E address \in GroupValues : AddGroup(address)
    \/ \E address \in GroupValues : UpdateGroup(address)
    \/ \E address \in GroupValues : RemoveGroup(address)
    \/ \E groupID \in GroupIDs : Group(groupID)
    \/ Groups

DeviceCalls ==
    \/ \E device \in DeviceValues : AddDevice(device)
    \/ \E device \in DeviceValues : UpdateDevice(device)
    \/ \E device \in DeviceValues : RemoveDevice(device)
    \/ \E address \in AddressValues : Device(address)
    \/ Devices

ListenerCalls ==
    \/ \E l \in Listeners : AddNetworkListener(l)
    \/ \E l \in Listeners : RemoveNetworkListener(l)

\* the registry as a store: every operation on the two maps, and the codec
Next ==
    \/ GroupCalls
    \/ DeviceCalls
    \/ MarshalJSON
    \/ \E data \in Documents : UnmarshalJSON(data)

Spec == Init /\ [][Next]_vars

\* the registry and its observers: the device mutations, with listeners
\* coming and going and one group in the groups map
NextListeners ==
    \/ ListenerCalls
    \/ \E device \in DeviceValues : AddDevice(device)
    \/ \E device \in DeviceValues : UpdateDevice(device)
    \/ \E device \in DeviceValues : RemoveDevice(device)
    \/ Devices
    \/ AddGroup(Yard)

SpecListeners == Init /\ [][NextListeners]_vars

\* the registry across restarts of the process: filled, saved, started again
NextPersist ==
    \/ \E device \in DeviceValues : AddDevice(device)
    \/ AddGroup(Yard)
    \/ Shutdown
    \/ \E r \in BOOLEAN : NewNetworkState(r)
    \/ Startup
    \/ file.exists /\ UnmarshalJSON(file.data)

SpecPersist == Init /\ [][NextPersist]_vars

\* the statements of sync.RWMutex
MutexSteps(t) ==
    \/ RWMutexLock(t)
    \/ RWMutexUnlock(t)
    \/ RWMutexRLock(t)
    \/ RWMutexRUnlock(t)

\* the statements of the group methods
GroupSteps(t) ==
    \/ PutGroupStmt(t)
    \/ DeleteGroupStmt(t)
    \/ LookupGroupStmt(t)
    \/ RangeGroupsStmt(t)

\* the statements of the methods that write the device map
DeviceWriteSteps(t) ==
    \/ PutDeviceStmt(t)
    \/ DeleteDeviceStmt(t)
    \/ NotifyStmt(t)

\* the statements of the methods that read the device map
DeviceReadSteps(t) ==
    \/ IsGroupStmt(t)
    \/ LookupDeviceStmt(t)
    \/ RangeDevicesStmt(t)

\* the statements that need a listener
ListenerSteps(t) ==
    \/ AppendListenerStmt(t)
    \/ DropListenerStmt(t)
    \/ CallbackReturns(t)

\* the statements of UnmarshalJSON
UnmarshalSteps(t) ==
    \/ DecodeStmt(t)
    \/ MergeDevicesStmt(t)
    \/ MergeGroupsStmt(t)

\* the statements of MarshalJSON, Startup and Shutdown
FileSteps(t) ==
    \/ CallStmt(t)
    \/ EncodeStmt(t)
    \/ StatStmt(t)
    \/ ReadFileStmt(t)
    \/ WrapStmt(t)
    \/ WriteFileStmt(t)

\* a call: the method and its argument
Invoke(fn, arg) == [fn |-> fn, arg |-> arg]

\* the calls the goroutines make
ThreadCalls ==
    <<Invoke("AddGroup", Yard), Invoke("RemoveGroup", Yard),
      Invoke("Group", Yard.GroupID), Invoke("Groups", Void),
      Invoke("AddDevice", Bulb), Invoke("UpdateDevice", Lamp),
      Invoke("RemoveDevice", Bulb),
      Invoke("Device", DevAddr(Bulb.NetworkAddress)), Invoke("Devices", Void),
      Invoke("MarshalJSON", Void), Invoke("UnmarshalJSON", BulbThenLamp),
      Invoke("Startup", Void), Invoke("Shutdown", Void)>>

\* the two maps under goroutines that call the registry at the same time,
\* statement by statement, with no listener registered
NextThreads ==
    \E t \in Threads :
       \/ \E i \in DOMAIN ThreadCalls : Begin(t, ThreadCalls[i])
       \/ MutexSteps(t)
       \/ GroupSteps(t)
       \/ DeviceWriteSteps(t)
       \/ DeviceReadSteps(t)
       \/ UnmarshalSteps(t)
       \/ FileSteps(t)

\* a registry made by NewNetworkState(false)
InitThreads == Init /\ ~reset

SpecThreads == InitThreads /\ [][NextThreads]_vars

\* the calls the goroutines make beside the listeners
RoundCalls ==
    <<Invoke("AddDevice", Bulb), Invoke("UpdateDevice", Lamp),
      Invoke("RemoveDevice", Bulb), Invoke("UnmarshalJSON", BulbThenLamp),
      Invoke("AddNetworkListener", 1), Invoke("RemoveNetworkListener", 1)>>

\* the device map and the listeners under goroutines that call the registry
\* at the same time; the program registers listeners before they start
NextRounds ==
    \/ /\ Started(trace, NumThreads) = 0
       /\ \E l \in 1..2 : AddNetworkListener(l)
    \/ \E t \in Threads :
          \/ \E i \in DOMAIN RoundCalls : Begin(t, RoundCalls[i])
          \/ MutexSteps(t)
          \/ DeviceWriteSteps(t)
          \/ ListenerSteps(t)
          \/ UnmarshalSteps(t)

SpecRounds == InitThreads /\ [][NextRounds]_vars

\* the registry and the values it hands out: the callers and a listener
\* write to the cluster id lists of the Device values they were handed
NextAlias ==
    \/ \E d \in DeviceValues : MakeDevice(d)
    \/ \E d \in DeviceValues : Made(d) /\ AddDevice(Boxed(d))
    \/ AddNetworkListener(1)
    \/ \E a \in DeviceAddresses : Device(DevAddr(a))
    \/ Devices
    \/ SetClusterId(9)
    \/ SetListElement

SpecAlias == Init /\ [][NextAlias]_vars

\* the calls the goroutines make while listeners call the registry
OuterCalls ==
    <<Invoke("AddDevice", Bulb), Invoke("UpdateDevice", Lamp),
      Invoke("RemoveDevice", Bulb),
      Invoke("Device", DevAddr(Bulb.NetworkAddress)), Invoke("Devices", Void),
      Invoke("AddGroup", Yard), Invoke("Groups", Void)>>

\* the calls a listener makes on the registry from within its callback
CallbackCalls ==
    <<Invoke("Device", DevAddr(Bulb.NetworkAddress)),
      Invoke("Device", GrpAddr(Yard.GroupID)), Invoke("Devices", Void),
      Invoke("AddDevice", Lamp), Invoke("UpdateDevice", Lamp),
      Invoke("RemoveDevice", Bulb), Invoke("Shutdown", Void),
      Invoke("AddNetworkListener", 2), Invoke("RemoveNetworkListener", 1),
      Invoke("Group", Yard.GroupID), Invoke("Groups", Void),
      Invoke("AddGroup", Yard), Invoke("UpdateGroup", Yard),
      Invoke("RemoveGroup", Yard)>>

\* the statements goroutine t can run here
ThreadSteps(t) ==
    \/ MutexSteps(t)
    \/ GroupSteps(t)
    \/ DeviceWriteSteps(t)
    \/ DeviceReadSteps(t)
    \/ CallbackReturns(t)
    \/ CallStmt(t)

\* a listener is registered, then goroutines call the registry and the
\* listener calls it back from within its callbacks
NextReentrant ==
    \/ /\ Started(trace, NumThreads) = 0
       /\ AddNetworkListener(1)
    \/ \E t \in Threads :
          \/ \E i \in DOMAIN OuterCalls : Begin(t, OuterCalls[i])
          \/ \E i \in DOMAIN CallbackCalls : Reenter(t, CallbackCalls[i])
          \/ ThreadSteps(t)

SpecReentrant == InitThreads /\ [][NextReentrant]_vars

---------------------------------------------------------------------------
\* Properties

\* the key string of a device
KeyOf(d) == DeviceAddressString(d.NetworkAddress)

IsDeviceMutation == op.name \in {"AddDevice", "UpdateDevice", "RemoveDevice"}

\* the listeners a call notified, in the order of the callbacks
Notified == [i \in DOMAIN calls |-> calls[i].listener]

\* C1: every result of Devices() holds at most one entry per network-address
\* string, and its entries are exactly the most recent upsert of each
\* address that was not removed since (whatever the IEEE addresses).
C1_OneEntryPerAddress ==
    op.name = "Devices" =>
        LET r == op.ret.elems
        IN  /\ \A i, j \in DOMAIN r : KeyOf(r[i]) = KeyOf(r[j]) => i = j
            /\ Range(r) = hist.devs

\* Bulb and Lamp, of one network address and two IEEE addresses, were both
\* inserted, and Devices() returned one of them beside Plug
C1_Witness ==
    /\ op.name = "Devices"
    /\ hist.pure /\ {Bulb, Lamp, Plug} \subseteq hist.D
    /\ Len(op.ret.elems) = 2

\* C2 (lookup): Group(id) returns the most recent value upserted under id
\* and true, or the zero value and false when id was removed or never added.
C2_Lookup ==
    op.name = "Group" =>
        LET known == {g \in hist.grps : g.GroupID = op.arg}
        IN  IF known = {} THEN op.ret = <<ZeroGroupAddress, FALSE>>
            ELSE \E g \in known : op.ret = <<g, TRUE>>

\* C2 (effect): AddGroup and UpdateGroup both store the argument under its
\* id and touch nothing else; RemoveGroup takes the id out, and changes
\* nothing when the id is absent.
C2_Effect ==
    /\ op'.name \in {"AddGroup", "UpdateGroup"} =>
          /\ DOMAIN groups' = DOMAIN groups \cup {op'.arg.GroupID}
          /\ groups'[op'.arg.GroupID] = op'.arg
          /\ \A id \in DOMAIN groups : id # op'.arg.GroupID => groups'[id] = groups[id]
          /\ UNCHANGED <<devices, listeners>>
    /\ op'.name = "RemoveGroup" =>
          /\ DOMAIN groups' = DOMAIN groups \ {op'.arg.GroupID}
          /\ \A id \in DOMAIN groups' : groups'[id] = groups[id]
          /\ op'.arg.GroupID \notin DOMAIN groups => groups' = groups
          /\ UNCHANGED <<devices, listeners>>

\* C2: the group map follows the upserts and removals.
C2_GroupIdentity == [](C2_Lookup) /\ [][C2_Effect]_vars

\* Hall and Attic were both added under id 5, and Group(5) found one
C2_Witness ==
    /\ op.name = "Group" /\ op.arg = 5 /\ op.ret[2]
    /\ hist.pure /\ {Hall, Attic} \subseteq hist.G

\* C3: with no listener ever removed, AddDevice(d) calls DeviceAdded(d) on
\* every listener once, in the order of registration, and nothing else.
C3_ListenerFidelity ==
    (op.name = "AddDevice" /\ ~reg.removed) =>
        calls = [i \in DOMAIN reg.order |->
                    [listener |-> reg.order[i], event |-> "DeviceAdded",
                     device |-> op.arg]]

C3_Witness ==
    /\ op.name = "AddDevice" /\ ~reg.removed
    /\ Len(reg.order) = NumListeners /\ Len(calls) = NumListeners

\* C4 as claimed: a notification round calls the registered listeners in
\* the order of their registration, also after removals.
C4_RegistrationOrder == IsDeviceMutation => Notified = reg.order

\* a round calls exactly the registered listeners, each once, in the order
\* of the listener list
C4_Rounds ==
    IsDeviceMutation =>
        /\ Notified = listeners
        /\ Range(Notified) = Range(reg.order)
        /\ Len(Notified) = Len(reg.order)
        /\ ~reg.removed => Notified = reg.order

\* a removal puts the last listener of the list in the removed one's place
C4_Removal ==
    op'.name = "RemoveNetworkListener" =>
        IF op'.arg \notin Range(listeners) THEN listeners' = listeners
        ELSE /\ Len(listeners') = Len(listeners) - 1
             /\ \A k \in DOMAIN listeners' :
                   listeners'[k] = IF listeners[k] = op'.arg
                                   THEN listeners[Len(listeners)]
                                   ELSE listeners[k]

\* C4 as amended: a round calls exactly the registered listeners, each once,
\* in the order of the listener list; that is the order of registration as
\* long as no listener was removed, and a removal moves the last listener of
\* the list to the place of the removed one.
C4_ListOrder == [](C4_Rounds) /\ [][C4_Removal]_vars

\* a round after a removal that called a later listener before an earlier
C4_Witness ==
    /\ IsDeviceMutation
    /\ reg.removed
    /\ Len(Notified) >= 2
    /\ Notified # reg.order

\* a registry that held nothing took, without error, the document that
\* Shutdown wrote (MarshalJSON's bytes) for a registry filled by AddDevice
\* and AddGroup alone
IsRoundTrip ==
    /\ op.name = "UnmarshalJSON" /\ op.fresh /\ op.ret = NoError
    /\ file.exists /\ op.arg = file.data /\ file.from.pure

\* a device or group as it comes back from a document
AsWritten(x) == [x EXCEPT !.Label = ToValidUTF8(@)]

IsValidUTF8(label) == \A i \in DOMAIN label : label[i] # "xFF"

\* C5 as claimed: after the round trip Devices() and Groups() of the second
\* registry are, as sets, the inserted D and G.
C5_RoundTripOfInserted ==
    IsRoundTrip =>
        /\ \A r \in DevicesResults(devices) : Range(r.elems) = file.from.D
        /\ \A r \in GroupsResults(groups) : Range(r.elems) = file.from.G

\* C5 as amended: after the round trip Devices() and Groups() of the second
\* registry are, as sets, those of the first (per network address and per
\* group id the element of D and G inserted last) with every label coerced
\* to valid UTF-8; they are D and G when no two elements of D share a
\* network address, no two of G a group id, and every label is valid UTF-8.
C5_RoundTrip ==
    IsRoundTrip =>
        /\ \A r \in DevicesResults(devices) :
              Range(r.elems) = {AsWritten(d) : d \in file.from.devs}
        /\ \A r \in GroupsResults(groups) :
              Range(r.elems) = {AsWritten(g) : g \in file.from.grps}
        /\ file.from.devs \subseteq file.from.D
        /\ file.from.grps \subseteq file.from.G
        /\ ( /\ \A x, y \in file.from.D : x.NetworkAddress = y.NetworkAddress => x = y
             /\ \A x, y \in file.from.G : x.GroupID = y.GroupID => x = y
             /\ \A x \in file.from.D \cup file.from.G : IsValidUTF8(x.Label) )
           => /\ \A r \in DevicesResults(devices) : Range(r.elems) = file.from.D
              /\ \A r \in GroupsResults(groups) : Range(r.elems) = file.from.G

\* two devices and a group made the round trip
C5_Witness ==
    /\ IsRoundTrip
    /\ file.from.D = {Bulb, Plug} /\ file.from.G = {Yard}
    /\ DOMAIN devices = {KeyOf(Bulb), KeyOf(Plug)} /\ DOMAIN groups = {Yard.GroupID}

\* after is before with the entries es upserted in order under key(e): no key
\* of before is lost, a key that es does not name keeps its value, and a key
\* that es names holds the last entry of es with that key
IsMergeOf(before, after, es, key(_)) ==
    /\ DOMAIN after = DOMAIN before \cup {key(es[i]) : i \in DOMAIN es}
    /\ \A k \in DOMAIN before :
          (\A i \in DOMAIN es : key(es[i]) # k) => after[k] = before[k]
    /\ \A i \in DOMAIN es :
          (\A j \in DOMAIN es : key(es[j]) = key(es[i]) => j <= i)
              => after[key(es[i])] = es[i]

GroupKeyOf(g) == g.GroupID

C6_Step ==
    (op'.name = "UnmarshalJSON" /\ op'.ret = NoError) =>
        LET S == DecState(op'.arg).val
        IN  /\ IsMergeOf(devices, devices', S.Devices.elems, KeyOf)
            /\ IsMergeOf(groups, groups', S.Groups.elems, GroupKeyOf)
            /\ DOMAIN devices \subseteq DOMAIN devices'
            /\ DOMAIN groups \subseteq DOMAIN groups'

\* C6: UnmarshalJSON of a snapshot S merges: every device key and group id
\* that S does not name stays with its value, every key that S names holds
\* the entry of S (the last one, should S name a key twice), and no entry
\* is removed.
C6_MergeNotReplace == [][C6_Step]_vars

\* a registry holding Bulb and a group took a snapshot of Plug alone and
\* holds Bulb, Plug and the group
C6_Witness ==
    /\ op.name = "UnmarshalJSON" /\ op.arg = PlugOnly /\ op.ret = NoError
    /\ DOMAIN devices = {KeyOf(Bulb), KeyOf(Plug)}
    /\ devices[KeyOf(Bulb)] = Bulb /\ devices[KeyOf(Plug)] = Plug
    /\ DOMAIN groups # {}

\* C7: Device(a) returns the zero Device and false for every group address
\* a, whatever the map holds under a.String(); for a device address it
\* returns the entry stored under a.String(), the latest upsert of that
\* address, or the zero Device and false when there is none.
C7_DeviceLookup ==
    op.name = "Device" =>
        IF op.arg.kind = "GroupAddress" THEN op.ret = <<ZeroDevice, FALSE>>
        ELSE LET known == {d \in hist.devs : d.NetworkAddress = op.arg.val}
             IN  /\ IF known = {} THEN op.ret = <<ZeroDevice, FALSE>>
                    ELSE \E d \in known : op.ret = <<d, TRUE>>
                 /\ op.ret = IF String(op.arg) \in DOMAIN devices
                             THEN <<devices[String(op.arg)], TRUE>>
                             ELSE <<ZeroDevice, FALSE>>

\* Device() of group 5 "1" while Plug is stored under the equal string 5/1
C7_Witness ==
    /\ op.name = "Device" /\ op.arg = GrpAddr(Hall)
    /\ String(op.arg) \in DOMAIN devices
    /\ devices[String(op.arg)] = Plug
    /\ op.ret = <<ZeroDevice, FALSE>>

C8_Step ==
    op'.name = "RemoveDevice" =>
        /\ DOMAIN devices' = DOMAIN devices \ {KeyOf(op'.arg)}
        /\ \A k \in DOMAIN devices' : devices'[k] = devices[k]
        /\ KeyOf(op'.arg) \notin DOMAIN devices => devices' = devices
        /\ UNCHANGED <<groups, listeners>>

\* C8: RemoveDevice(x) deletes the entry under x's network-address string,
\* equal to x or not, leaves the other devices, the groups and the listener
\* list as they were, and leaves the device map as it was when the key is
\* absent.
C8_RemoveByAddress == [][C8_Step]_vars

\* a removal of an entry that differed from the argument, with another
\* device, a group and two listeners in the registry
C8_Witness ==
    /\ op.name = "RemoveDevice"
    /\ op.held # {} /\ op.arg \notin op.held
    /\ DOMAIN devices # {} /\ DOMAIN groups # {} /\ Len(listeners) >= 2

\* C9: RemoveDevice of an address that holds a device takes it out of
\* Devices() and calls DeviceRemoved once on every listener with the value
\* the registry held for that address.
C9_RemovedWithLastKnownValue ==
    (op.name = "RemoveDevice" /\ op.held # {}) =>
        /\ \A r \in DevicesResults(devices) :
              \A i \in DOMAIN r.elems : KeyOf(r.elems[i]) # KeyOf(op.arg)
        /\ \E d \in op.held :
              calls = [i \in DOMAIN listeners |->
                          [listener |-> listeners[i], event |-> "DeviceRemoved",
                           device |-> d]]

C10_Step ==
    op'.name = "Startup" =>
        IF reset \/ ~file.exists
        THEN op'.ret = NoError /\ UNCHANGED <<devices, groups, listeners>>
        ELSE LET state == DecState(file.data)
             IN  \/ /\ op'.ret = NoError
                    /\ ~state.err
                    /\ IsMergeOf(devices, devices', state.val.Devices.elems, KeyOf)
                    /\ IsMergeOf(groups, groups', state.val.Groups.elems, GroupKeyOf)
                    /\ UNCHANGED listeners
                 \/ /\ op'.ret # NoError
                    /\ UNCHANGED <<devices, groups, listeners>>

\* C10: Startup is all or nothing: with the reset flag or without a file it
\* succeeds and changes nothing; with a file and no reset flag it merges
\* all of the file and succeeds, or fails and changes nothing.
C10_StartupAllOrNothing == [][C10_Step]_vars

\* goroutine t cannot go on before another one acts: it waits in Lock for
\* the readers to leave, in RLock behind a writer, or in Lock for a writer
Waiting(t) ==
    /\ Running(t)
    /\ \/ Top(t).at = "wait"
       \/ At(t, "Lock", "") /\ mx[Stmt(Top(t)).m].writer # 0

\* the goroutines that have to act for the waiting goroutine t to go on
WaitsFor(t) ==
    IF Stmt(Top(t)).do = "Lock" /\ Top(t).at = "wait"
    THEN {u \in Threads : mx[Stmt(Top(t)).m].readers[u] > 0}
    ELSE {mx[Stmt(Top(t)).m].writer}

\* the goroutines of S wait for one another
Deadlocked(S) == \A t \in S : Waiting(t) /\ WaitsFor(t) \subseteq S

\* C11: every call returns: in no reachable state is there a set of calls
\* that wait for one another, Shutdown/MarshalJSON beside the writers
\* included.
C11_EveryCallReturns == \A S \in SUBSET Threads : S # {} => ~Deadlocked(S)

\* a call of goroutine t runs its statement of kind do in this step
Runs(t, do) ==
    /\ Running(t) /\ Stmt(Top(t)).do = do
    /\ Top(t).at \in {"", "ranging"}
    /\ stacks'[t] # stacks[t]

\* the lookups and the listings return the content of their map at one
\* instant between their call and their return
C12_Reads ==
    /\ op.name = "Device" => \E m \in op.seen : op.ret = LookupDevice(m, op.arg)
    /\ op.name = "Devices" => \E m \in op.seen : op.ret \in DevicesResults(m)
    /\ op.name = "Group" => \E m \in op.seen : op.ret = LookupGroup(m, op.arg)
    /\ op.name = "Groups" => \E m \in op.seen : op.ret \in GroupsResults(m)

\* the writes take effect one after the other, each one whole: a write
\* leaves the map as the write before it left it, with its own change
C12_Writes ==
    \A t \in Threads :
       /\ Runs(t, "PutDevice") =>
             /\ devices' = PutDevice(trace.devices, Top(t).arg)
             /\ trace'.devices = devices'
       /\ Runs(t, "DeleteDevice") =>
             /\ devices' = DeleteDevice(trace.devices, Top(t).arg)
             /\ trace'.devices = devices'
       /\ Runs(t, "PutGroup") =>
             /\ groups' = PutGroup(trace.groups, Top(t).arg)
             /\ trace'.groups = groups'
       /\ Runs(t, "DeleteGroup") =>
             /\ groups' = DeleteGroup(trace.groups, Top(t).arg)
             /\ trace'.groups = groups'
       /\ (Runs(t, "MergeGroups") /\ trace' # trace) =>
             /\ devices' = MergeDevices(trace.devices, Top(t).acc[1].Devices.elems)
             /\ groups' = MergeGroups(trace.groups, Top(t).acc[1].Groups.elems)
             /\ trace'.devices = devices' /\ trace'.groups = groups'

\* C12: the operations on one map are linearizable: the writes to a map take
\* effect whole and one after the other, in an order that agrees with the
\* order of the calls in time, and every Device(), Devices(), Group() and
\* Groups() returns the content the map had at one instant between its call
\* and its return.
C12_Linearizable == [](C12_Reads) /\ [][C12_Writes]_vars

\* Devices() returned a device after a write was completed during the call
C12_Witness ==
    /\ op.name = "Devices"
    /\ Cardinality(op.seen) >= 2
    /\ ~op.ret.nil

\* the Device values a read returned
Read ==
    IF op.name = "Device" THEN {op.ret[1]}
    ELSE IF op.name = "Devices" THEN Range(op.ret.elems)
    ELSE {}

\* C13: the callers get copies: whatever a caller or a listener assigned to
\* the parts of a Device it was handed, the elements of its cluster id
\* lists included, every later Device() and Devices() returns the values it
\* would have returned without the assignments.
C13_CopiesOnRead ==
    \A d \in Read : Unboxed(d, TRUE) = Unboxed(d, FALSE)

NoListenerTwice(ls) == \A i, j \in DOMAIN ls : ls[i] = ls[j] => i = j

\* the list holds, once each, the listeners whose latest call was an add,
\* and a round calls those and no other
C14_Registered ==
    /\ NoListenerTwice(listeners)
    /\ Range(listeners) = Range(reg.order)
    /\ IsDeviceMutation =>
          NoListenerTwice(Notified) /\ Range(Notified) = Range(reg.order)

\* an add of a registered listener and a removal of one that is not change
\* nothing; an add registers; a removal takes the listener out and leaves
\* every other one
C14_Calls ==
    /\ op'.name = "AddNetworkListener" =>
          /\ Range(listeners') = Range(listeners) \cup {op'.arg}
          /\ op'.arg \in Range(listeners) => listeners' = listeners
    /\ op'.name = "RemoveNetworkListener" =>
          /\ Range(listeners') = Range(listeners) \ {op'.arg}
          /\ Len(listeners') = Cardinality(Range(listeners) \ {op'.arg})
          /\ op'.arg \notin Range(listeners) => listeners' = listeners

\* C14: the listener list is a set: it holds no listener twice and exactly
\* the listeners whose latest call was an add; an add of a registered
\* listener and a removal of an unregistered one change nothing; a removal
\* leaves every other listener registered once; no round calls a listener
\* that was removed.
C14_SetSemantics == [](C14_Registered) /\ [][C14_Calls]_vars

\* a round that called the listeners left after the removal of one
C14_Witness ==
    /\ IsDeviceMutation
    /\ reg.removed
    /\ Len(Notified) = NumListeners - 1
    /\ Len(reg.order) = NumListeners - 1

\* the event that goes with a mutation
EventOf(name) ==
    CASE name = "AddDevice" -> "DeviceAdded"
      [] name = "UpdateDevice" -> "DeviceUpdated"
      [] name = "RemoveDevice" -> "DeviceRemoved"

C16_Step ==
    op'.name \in {"AddDevice", "UpdateDevice", "RemoveDevice"} =>
        /\ calls' = [i \in DOMAIN listeners |->
                        [listener |-> listeners[i], event |-> EventOf(op'.name),
                         device |-> op'.arg]]
        /\ op'.name # "RemoveDevice" =>
              /\ KeyOf(op'.arg) \in DOMAIN devices'
              /\ devices'[KeyOf(op'.arg)] = op'.arg
        /\ op'.name = "RemoveDevice" => KeyOf(op'.arg) \notin DOMAIN devices'

\* C16: whether the key is in the map or not, AddDevice stores the value and
\* calls DeviceAdded once on every listener and nothing else, UpdateDevice
\* stores it and calls DeviceUpdated once on every listener, and RemoveDevice
\* calls DeviceRemoved once on every listener.
C16_EventsByOperation == [][C16_Step]_vars

\* RemoveDevice of an address the map did not hold called two listeners
C16_Witness ==
    /\ op.name = "RemoveDevice"
    /\ op.held = {}
    /\ Len(calls) >= 2
    /\ \A i \in DOMAIN calls : calls[i].event = "DeviceRemoved"

\* frame k of goroutine t is inside a listener callback
InCallback(t, k) ==
    k \in DOMAIN stacks[t] /\ stacks[t][k].at \in {"callback", "reentered"}

\* C15: a mutation is in force while its listeners are told: at every
\* moment a callback of AddDevice(d) or UpdateDevice(d) runs, the device
\* map holds d under d's key, and at every moment a callback of
\* RemoveDevice(d) runs, the key is not in the map, whatever the other
\* goroutines do.
C15_InForceDuringCallback ==
    \A t \in Threads : \A k \in DOMAIN stacks[t] :
       InCallback(t, k) =>
          IF stacks[t][k].fn = "RemoveDevice"
          THEN KeyOf(stacks[t][k].arg) \notin DOMAIN devices
          ELSE /\ KeyOf(stacks[t][k].arg) \in DOMAIN devices
               /\ devices[KeyOf(stacks[t][k].arg)] = stacks[t][k].arg

\* a callback of UpdateDevice(Lamp) runs while another goroutine waits to
\* write the device map
C15_Witness ==
    /\ \E t \in Threads : InCallback(t, 1) /\ stacks[t][1].fn = "UpdateDevice"
    /\ \E t \in Threads : At(t, "Lock", "") /\ Stmt(Top(t)).m = "devicesMx"

\* the place among the writes to the device map of the write that an event
\* tells of
WriteOf(e) ==
    CHOOSE i \in DOMAIN trace.applied :
       trace.applied[i].thread = e.thread /\ trace.applied[i].n = e.n

\* the rounds follow one another in the order of the writes: no callback of
\* a mutation comes after a callback of a mutation that wrote later
C19_RoundsInOrder ==
    \A i, j \in DOMAIN trace.events :
       i < j => WriteOf(trace.events[i]) <= WriteOf(trace.events[j])

\* the last write to the key of write i, and the last event of listener l
\* for that key
IsLastWrite(i) ==
    \A j \in DOMAIN trace.applied :
       trace.applied[j].key = trace.applied[i].key => j <= i

LastEventFor(l, key) ==
    CHOOSE i \in DOMAIN trace.events :
       /\ trace.events[i].listener = l /\ KeyOf(trace.events[i].device) = key
       /\ \A j \in DOMAIN trace.events :
             (trace.events[j].listener = l /\ KeyOf(trace.events[j].device) = key)
                 => j <= i

\* once every call has returned: a listener that was told of the last write
\* to a key was told of nothing later for that key, and what it was told
\* agrees with the map
C19_LastEventAgrees ==
    (\A t \in Threads : ~Running(t)) =>
        \A i \in DOMAIN trace.applied : \A k \in DOMAIN trace.events :
           ( /\ IsLastWrite(i)
             /\ trace.applied[i].fn # "UnmarshalJSON"
             /\ WriteOf(trace.events[k]) = i )
           => LET e == trace.events[LastEventFor(trace.events[k].listener,
                                                 trace.applied[i].key)]
              IN  /\ WriteOf(e) = i
                  /\ IF e.event = "DeviceRemoved"
                     THEN trace.applied[i].key \notin DOMAIN devices
                     ELSE /\ trace.applied[i].key \in DOMAIN devices
                          /\ devices[trace.applied[i].key] = e.device

\* the listeners that stay registered: registered before the goroutines
\* started, and no call of the goroutines adds or removes them
StaysRegistered ==
    {listeners[i] : i \in DOMAIN listeners} \
       {RoundCalls[i].arg : i \in {j \in DOMAIN RoundCalls :
           RoundCalls[j].fn \in {"AddNetworkListener", "RemoveNetworkListener"}}}

\* a listener that stays registered is told of every mutation whose call has
\* returned
C19_ToldOfAll ==
    \A l \in StaysRegistered : \A i \in DOMAIN trace.applied :
       ( /\ trace.applied[i].fn # "UnmarshalJSON"
         /\ \/ ~Running(trace.applied[i].thread)
            \/ trace.started[trace.applied[i].thread] > trace.applied[i].n )
       => \E k \in DOMAIN trace.events :
             trace.events[k].listener = l /\ WriteOf(trace.events[k]) = i

\* C19: the notification rounds of concurrent device mutations do not
\* interleave and come in the order in which the mutations wrote the device
\* map; once all calls have returned, the last event a listener got for a
\* key agrees with the map (DeviceAdded(d), DeviceUpdated(d): the key holds
\* d; DeviceRemoved: the key is absent), if the listener was told of the
\* last mutation of that key and no UnmarshalJSON wrote the key after it.
\* A listener that stays registered is told of every mutation.
C19_RoundsDoNotInterleave ==
    C19_RoundsInOrder /\ C19_ToldOfAll /\ C19_LastEventAgrees

\* all calls have returned; two goroutines each told two listeners of a
\* mutation of the same key
C19_Witness ==
    /\ \A t \in Threads : ~Running(t)
    /\ Len(trace.events) >= 4
    /\ StaysRegistered # {}
    /\ \E i, j \in DOMAIN trace.events :
          /\ trace.events[i].thread # trace.events[j].thread
          /\ KeyOf(trace.events[i].device) = KeyOf(trace.events[j].device)

\* goroutine t holds a lock of the registry
HoldsLock(t) ==
    \E m \in Mutexes : mx[m].writer = t \/ mx[m].readers[t] > 0

\* goroutine t is about to encode the snapshot, or to stat, read or write
\* the file
EncodesOrDoesIO(t) ==
    /\ Running(t)
    /\ Top(t).at = ""
    /\ Stmt(Top(t)).do \in {"Encode", "Stat", "ReadFile", "WriteFile"}

\* C17: MarshalJSON holds the read locks of the two maps only while it copies
\* them: a goroutine that encodes the snapshot, or that reads or writes the
\* file in Startup or Shutdown, holds no lock of the registry.
C17_NoLockWhileEncoding ==
    \A t \in Threads : EncodesOrDoesIO(t) => ~HoldsLock(t)

\* the document is the content of the two maps at one of these instants
SnapshotOf(bytes, seen) ==
    \E m \in seen : bytes \in MarshalResults(m[1], m[2])

\* a MarshalJSON that returned, to the caller or to Shutdown, returned the
\* content of both maps at one instant between its call and its return
C20_OneInstant ==
    /\ op.name = "MarshalJSON" => SnapshotOf(op.ret[1], op.seen)
    /\ \A t \in Threads : \A k \in DOMAIN stacks[t] :
          (stacks[t][k].fn = "MarshalJSON" /\ stacks[t][k].ret # Void)
              => SnapshotOf(stacks[t][k].ret[1], stacks[t][k].seen)

\* goroutine t is within the merge loops of UnmarshalJSON
Merging(t) ==
    /\ Running(t) /\ Top(t).fn = "UnmarshalJSON"
    /\ Stmt(Top(t)).do \in {"MergeDevices", "MergeGroups"}
    /\ ~(Stmt(Top(t)).do = "MergeDevices" /\ Top(t).at = "")

\* goroutine t is within the listings or the encoding of MarshalJSON
Snapshotting(t) ==
    \E k \in DOMAIN stacks[t] :
       /\ stacks[t][k].fn = "MarshalJSON"
       /\ Body("MarshalJSON")[stacks[t][k].pc].do \in {"Call", "Encode"}

\* C20: MarshalJSON returns the content of the device map and of the group
\* map at one common instant, and no MarshalJSON reads the maps while an
\* UnmarshalJSON is within its upserts: a snapshot never holds the devices of
\* an UnmarshalJSON without its groups, or its groups without its devices.
C20_AtomicAcrossMaps ==
    /\ C20_OneInstant
    /\ \A t, u \in Threads : ~(Snapshotting(t) /\ Merging(u))

\* a MarshalJSON returned a snapshot, and an UnmarshalJSON of another
\* goroutine wrote the maps between its call and its return
C20_Witness ==
    /\ op.name = "MarshalJSON"
    /\ Cardinality(op.seen) >= 2
    /\ \E i \in DOMAIN trace.applied :
          trace.applied[i].fn = "UnmarshalJSON" /\ trace.applied[i].thread # op.thread

\* goroutine t's listener called method fn of the registry from within a
\* callback of t's round, and the call has not returned
Reentered(t) ==
    /\ Len(stacks[t]) >= 2
    /\ stacks[t][1].at = "reentered"

\* the methods that, called from a callback, never return, and those that
\* always do
DeviceSide ==
    {"Device", "Devices", "AddDevice", "UpdateDevice", "RemoveDevice", "Shutdown",
     "AddNetworkListener", "RemoveNetworkListener"}

GroupSide == {"Group", "Groups", "AddGroup", "UpdateGroup", "RemoveGroup"}

\* the goroutine of a round holds devicesMx for writing and listenersMx for
\* reading while a callback of the round runs
C18_LocksHeld ==
    \A t \in Threads :
       InCallback(t, 1) =>
          /\ mx["devicesMx"].writer = t
          /\ mx["listenersMx"].readers[t] > 0

\* the call goroutine t's listener made can go on, now or once goroutines
\* that can themselves go on have released a lock: t is in no set of
\* goroutines that wait for one another
CanReturn(t) == \A S \in SUBSET Threads : t \in S => ~Deadlocked(S)

\* C18 as stated: in every round the notifying call holds devicesMx
\* exclusively and listenersMx shared; a call of Device, Devices, AddDevice,
\* UpdateDevice, RemoveDevice, Shutdown, AddNetworkListener or
\* RemoveNetworkListener made by a listener from within its callback never
\* returns, and a call of Group, Groups, AddGroup, UpdateGroup or
\* RemoveGroup made from there is never kept from returning.
C18_ReentryDeadlocks ==
    /\ [](/\ C18_LocksHeld
          /\ \A t \in Threads :
                (Reentered(t) /\ stacks[t][2].fn \in GroupSide) => CanReturn(t))
    /\ [][\A t \in Threads :
             (Reentered(t) /\ stacks[t][2].fn \in DeviceSide) => Reentered(t)']_vars

\* the call the listener made has to take a lock the round holds: every
\* device-side call but Device with a group address, which returns before
\* it takes any lock
Blocks(f) == f.fn \in DeviceSide /\ ~(f.fn = "Device" /\ IsGroup(f.arg))

\* C18, amended: as stated, but a call of Device never returns only if its
\* address is a device address; Device with a group address returns to the
\* callback, as the group-side calls do.
C18_ReentryDeadlocksButGroupAddress ==
    /\ [](/\ C18_LocksHeld
          /\ \A t \in Threads :
                (Reentered(t) /\ ~Blocks(stacks[t][2])) => CanReturn(t))
    /\ [][\A t \in Threads :
             (Reentered(t) /\ Blocks(stacks[t][2])) => Reentered(t)']_vars

\* a listener called Devices from within its callback and waits for the read
\* lock of the device map, which its own round holds for writing
C18_Witness ==
    \E t \in Threads :
       /\ Reentered(t) /\ Top(t).fn = "Devices" /\ Top(t).at = "wait"
       /\ mx["devicesMx"].writer = t

====
